---- MODULE Spec2Model ----
(***************************************************************************)
(* Verification model of the STTM -> Flink SQL compiler                    *)
(* (scripts/sttm_to_flink_v22.py) and of its validation engine             *)
(* (scripts/sttm_validations_v22.py).                                      *)
(*                                                                         *)
(* A text is a sequence of one-character strings, so that trimming,        *)
(* regular-expression matching and formatting are computed character by    *)
(* character as the Python code computes them.  A mapping row is a record  *)
(* of texts; a field the row does not carry reads as the empty text, as    *)
(* dict.get(field, '') does.  A sheet is a frame of labelled columns: a    *)
(* label may stand over several columns, and what pandas then does (an     *)
(* exception, or the printout of a Series where a cell was expected) is    *)
(* computed as pandas computes it.  Where releases of pandas differ, the   *)
(* release is a variable of the state, drawn in Init.                      *)
(*                                                                         *)
(* The module holds one specification per component:                       *)
(*   SpecSanitize  sanitize_predicate, applied once and twice              *)
(*   SpecRewrite   rewrite_predicate_as_json, scanned character by         *)
(*                 character, applied once and twice                       *)
(*   SpecExpr      choose_expr on one row                                  *)
(*   SpecAlloc     the CSV index allocation of one view unit in generate   *)
(*   SpecDup       duplicate TargetColumn validation and build_table_ddl   *)
(*   SpecMatrix    validate_against_matrix and resolve_table_props on one  *)
(*                 configuration matrix                                    *)
(*   SpecGen       generate, from the sheets read to the consolidated SQL  *)
(*   SpecFilter    generate on one unit whose rows carry FilterPredicates  *)
(*   SpecJoin      generate on one unit whose rows carry join fields       *)
(*   SpecOrder     generate up to the grouping of the sorted rows, or to   *)
(*                 the exception the sort raises                           *)
(*   SpecTwice     generate called twice on the same workbook, the set of  *)
(*                 table names iterated in an order of its own each time   *)
(*   SpecStage     generate on one unit whose rows carry different stages, *)
(*                 message formats and field selectors                     *)
(*   SpecFrame     the allocator's locals over the units of two calls of   *)
(*                 generate                                                *)
(* Each specification leaves the variables of the others at their idle     *)
(* values.                                                                 *)
(***************************************************************************)
EXTENDS Integers, Sequences, FiniteSets, TLC

VARIABLES
  san_raw,      \* sanitize_predicate: the raw predicate text
  san_once,     \* sanitize_predicate(raw)
  san_twice,    \* sanitize_predicate(sanitize_predicate(raw))
  san_pc        \* "init", "once", "twice"

VARIABLES
  rw_fp,          \* rewrite_predicate_as_json: fp, the text being rewritten
  rw_payload_col, \* payload_col
  rw_i,           \* i, as a 1-based index (Python's i + 1)
  rw_in_s,        \* in_s: inside a single-quoted literal
  rw_in_d,        \* in_d: inside a double-quoted literal
  rw_out,         \* out: the list of pieces appended so far
  rw_result,      \* the returned text
  rw_first,       \* the text returned by the first application
  rw_pass,        \* 1: first application, 2: applied to its own result
  rw_pc           \* "start", "scan", "done"

VARIABLES
  ex_row,       \* choose_expr: row
  ex_is_view,   \* is_view
  ex_auto_idx,  \* auto_csv_index
  ex_expr,      \* the returned expression text
  ex_pc         \* "init", "done"

VARIABLES
  al_rows,      \* generate, one unit: rows, the unit's rows in row order
  al_is_view,   \* is_view
  al_reserved,  \* reserved
  al_cursor,    \* cursor
  al_auto_idx,  \* auto_idx: TargetColumn -> index
  al_assigned,  \* per row of the second loop, the idx it computed (-1: none)
  al_exprs,     \* per row, r['__expr__']
  al_k,         \* the row the running loop is at (1-based)
  al_pc         \* "stage", "reserve", "assign", "expr", "done"

VARIABLES
  dd_mapping,   \* the rows of one TargetTable in the normalised mapping, in file order
  dd_props,     \* props of build_table_ddl: the (key, value) pairs in dict order
  dd_errors,    \* errors of validate_views_and_alignment
  dd_rows,      \* generate: grouped[t], the unit's rows after the sort
  dd_cols_seen, \* build_table_ddl: cols_seen
  dd_col_lines, \* build_table_ddl: col_lines
  dd_pk_cols,   \* build_table_ddl: pk_cols
  dd_ddl,       \* build_table_ddl: the text returned
  dd_k,         \* the row the loop of build_table_ddl is at (1-based)
  dd_pc         \* "validate", "sort", "ddl", "done"

VARIABLES
  mx_tables,    \* mapping_tables: the TargetTable values of the mapping
  mx_unit,      \* the table whose props are resolved (logical and emitted name)
  mx_matrix,    \* matrix_df
  mx_findings,  \* what validate_against_matrix returns
  mx_validated, \* validate_against_matrix has returned or raised
  mx_props,     \* what resolve_table_props returns
  mx_resolved   \* resolve_table_props has returned or raised

mxVars == <<mx_tables, mx_unit, mx_matrix, mx_findings, mx_validated, mx_props,
            mx_resolved>>

VARIABLES
  gn_pandas,       \* the release of pandas the build runs on, one of PandasBuilds
  gn_mapping,      \* generate: mapping (labels, index and cells of the mapping sheet)
  gn_matrix,       \* the sheet Config_TableMatrix, then matrix_df
  gn_issues,       \* issues
  gn_grouped,      \* grouped: the units (logical, rows) in insertion order
  gn_views_sql,    \* views_sql
  gn_ddls_sql,     \* ddls_sql
  gn_xref_inserts, \* xref_inserts
  gn_fgac_inserts, \* fgac_inserts
  gn_all_sql,      \* all_sql
  gn_raised,       \* an exception left generate
  gn_u,            \* the unit the loop over grouped is at (1-based)
  gn_pc            \* "load", "validate", "sort", "units", "done"

gnVars == <<gn_pandas, gn_mapping, gn_matrix, gn_issues, gn_grouped, gn_views_sql, gn_ddls_sql,
            gn_xref_inserts, gn_fgac_inserts, gn_all_sql, gn_raised, gn_u, gn_pc>>

VARIABLES
  fr_units,     \* grouped: the row sequences of the units, in unit order
  fr_run,       \* the call of generate that is running (1 or 2)
  fr_u,         \* the unit the loop of line 288 stands at
  fr_reserved,  \* reserved, a local of generate
  fr_cursor,    \* cursor, a local of generate
  fr_auto_idx,  \* auto_idx, a local of generate
  fr_indices,   \* per call and unit, the auto_idx the expressions were built with
  fr_pc         \* "idle", "units" or "done"

frVars == <<fr_units, fr_run, fr_u, fr_reserved, fr_cursor, fr_auto_idx, fr_indices, fr_pc>>

VARIABLES
  tw_book,      \* the two sheets of the workbook, as they are on disk
  tw_run,       \* the call of generate that is running (1 or 2; 0: no second call is made)
  tw_first      \* what the first call returned

twVars == <<tw_book, tw_run, tw_first>>

sanVars == <<san_raw, san_once, san_twice, san_pc>>
rwVars == <<rw_fp, rw_payload_col, rw_i, rw_in_s, rw_in_d, rw_out, rw_result,
            rw_first, rw_pass, rw_pc>>
exVars == <<ex_row, ex_is_view, ex_auto_idx, ex_expr, ex_pc>>

alVars == <<al_rows, al_is_view, al_reserved, al_cursor, al_auto_idx, al_assigned,
            al_exprs, al_k, al_pc>>

ddVars == <<dd_mapping, dd_props, dd_errors, dd_rows, dd_cols_seen, dd_col_lines,
            dd_pk_cols, dd_ddl, dd_k, dd_pc>>

vars == <<sanVars, rwVars, exVars, alVars, ddVars, mxVars, gnVars, frVars, twVars>>

\* the variables a component leaves alone
notSan == <<rwVars, exVars, alVars, ddVars, mxVars, gnVars, frVars, twVars>>
notRw == <<sanVars, exVars, alVars, ddVars, mxVars, gnVars, frVars, twVars>>
notEx == <<sanVars, rwVars, alVars, ddVars, mxVars, gnVars, frVars, twVars>>
notAl == <<sanVars, rwVars, exVars, ddVars, mxVars, gnVars, frVars, twVars>>
notDd == <<sanVars, rwVars, exVars, alVars, mxVars, gnVars, frVars, twVars>>
notMx == <<sanVars, rwVars, exVars, alVars, ddVars, gnVars, frVars, twVars>>
notGn == <<sanVars, rwVars, exVars, alVars, ddVars, mxVars, frVars, twVars>>
notFr == <<sanVars, rwVars, exVars, alVars, ddVars, mxVars, gnVars, twVars>>
notTw == <<sanVars, rwVars, exVars, alVars, ddVars, mxVars, gnVars, frVars>>

----------------------------------------------------------------------------
(* Characters and texts *)

Lower == <<"a", "b", "c", "d", "e", "f", "g", "h", "i", "j", "k", "l", "m",
           "n", "o", "p", "q", "r", "s", "t", "u", "v", "w", "x", "y", "z">>
Upper == <<"A", "B", "C", "D", "E", "F", "G", "H", "I", "J", "K", "L", "M",
           "N", "O", "P", "Q", "R", "S", "T", "U", "V", "W", "X", "Y", "Z">>
Digits == <<"0", "1", "2", "3", "4", "5", "6", "7", "8", "9">>

Range(f) == {f[x] : x \in DOMAIN f}

SetMin(S) == CHOOSE x \in S : \A y \in S : x <= y
SetMax(S) == CHOOSE x \in S : \A y \in S : y <= x

IsSpaceCh(c) == c \in {" ", "\t", "\n", "\r"}
UpperSet == Range(Upper)
LowerSet == Range(Lower)
DigitSet == Range(Digits)
IsUpperCh(c) == c \in UpperSet
IsLowerCh(c) == c \in LowerSet
IsDigitCh(c) == c \in DigitSet
\* \w of the re module, on ASCII text
IsWordCh(c) == IsUpperCh(c) \/ IsLowerCh(c) \/ IsDigitCh(c) \/ c = "_"

\* str.upper() and str.lower(), one character
UpperCh(c) == IF IsLowerCh(c) THEN Upper[CHOOSE x \in DOMAIN Lower : Lower[x] = c] ELSE c
LowerCh(c) == IF IsUpperCh(c) THEN Lower[CHOOSE x \in DOMAIN Upper : Upper[x] = c] ELSE c

str_upper(t) == [x \in DOMAIN t |-> UpperCh(t[x])]
str_lower(t) == [x \in DOMAIN t |-> LowerCh(t[x])]

\* str.strip(): drop leading and trailing whitespace
str_strip(t) ==
  LET keep == {x \in DOMAIN t : ~IsSpaceCh(t[x])}
  IN  IF keep = {} THEN <<>> ELSE SubSeq(t, SetMin(keep), SetMax(keep))

\* t[from..] as Python writes it for a 1-based from
From(t, from) == SubSeq(t, from, Len(t))

\* prefix test at a 1-based position
MatchesAt(t, at, pat) ==
  /\ at + Len(pat) - 1 <= Len(t)
  /\ \A x \in DOMAIN pat : t[at + x - 1] = pat[x]

\* pat in t
Contains(t, pat) == \E at \in 1..(Len(t) + 1) : MatchesAt(t, at, pat)

\* \b of the re module between t[at-1] and t[at] (1-based: at is the index of
\* the character after the boundary)
WordBoundary(t, at) ==
  LET before == at > 1 /\ at - 1 <= Len(t) /\ IsWordCh(t[at - 1])
      after  == at >= 1 /\ at <= Len(t) /\ IsWordCh(t[at])
  IN  before # after

RECURSIVE Flatten(_)
\* "".join(parts)
Flatten(parts) == IF parts = <<>> THEN <<>> ELSE Head(parts) \o Flatten(Tail(parts))

----------------------------------------------------------------------------
(* Predicate handling: sanitize_predicate *)

T_WHERE == <<"W", "H", "E", "R", "E">>
T_AND == <<"A", "N", "D">>
T_OR == <<"O", "R">>
\* the alternation (WHERE|AND|OR), in the order the regular expression tries it
LeadingKeywords == <<T_WHERE, T_AND, T_OR>>

\* the length matched by ^\s*(WHERE|AND|OR)\b under re.IGNORECASE, 0 when
\* the text does not match
LeadingKeywordLen(t) ==
  LET sp == IF \E x \in DOMAIN t : ~IsSpaceCh(t[x])
            THEN SetMin({x \in DOMAIN t : ~IsSpaceCh(t[x])}) - 1
            ELSE Len(t)
      hit == {x \in DOMAIN LeadingKeywords :
                /\ MatchesAt(str_upper(t), sp + 1, LeadingKeywords[x])
                /\ WordBoundary(t, sp + 1 + Len(LeadingKeywords[x]))}
  IN  IF hit = {} THEN 0 ELSE sp + Len(LeadingKeywords[SetMin(hit)])

\* re.sub(r'^\s*(WHERE|AND|OR)\b', '', s, flags=re.IGNORECASE)
SubLeadingKeyword(t) == From(t, LeadingKeywordLen(t) + 1)

\* re.sub(r';+\s*$', '', s): the leftmost suffix made of one or more
\* semicolons followed by whitespace only is removed
SubTrailingSemicolons(t) ==
  LET starts == {p \in DOMAIN t :
                   \E q \in p..Len(t) :
                      /\ \A x \in p..q : t[x] = ";"
                      /\ \A x \in (q + 1)..Len(t) : IsSpaceCh(t[x])}
  IN  IF starts = {} THEN t ELSE SubSeq(t, 1, SetMin(starts) - 1)

\* the mutant: the second .strip() (after the keyword is removed) is forgotten
sanitize_predicate_NoStrip(raw) ==
  SubTrailingSemicolons(SubLeadingKeyword(str_strip(raw)))

sanitize_predicate(raw) ==
  SubTrailingSemicolons(str_strip(SubLeadingKeyword(str_strip(raw))))

----------------------------------------------------------------------------
(* Predicate handling: rewrite_predicate_as_json *)

SQL_RESERVED == {
  <<"L", "I", "K", "E">>, <<"A", "N", "D">>, <<"O", "R">>, <<"N", "O", "T">>,
  <<"I", "N">>, <<"B", "E", "T", "W", "E", "E", "N">>, <<"I", "S">>,
  <<"N", "U", "L", "L">>, <<"E", "X", "I", "S", "T", "S">>, <<"A", "L", "L">>,
  <<"A", "N", "Y">>, <<"S", "O", "M", "E">>, <<"T", "R", "U", "E">>,
  <<"F", "A", "L", "S", "E">>, <<"C", "A", "S", "E">>, <<"W", "H", "E", "N">>,
  <<"T", "H", "E", "N">>, <<"E", "L", "S", "E">>, <<"E", "N", "D">>,
  <<"O", "N">>, <<"A", "S">>, <<"J", "O", "I", "N">>, <<"L", "E", "F", "T">>,
  <<"R", "I", "G", "H", "T">>, <<"F", "U", "L", "L">>,
  <<"I", "N", "N", "E", "R">>, <<"O", "U", "T", "E", "R">>,
  <<"G", "R", "O", "U", "P">>, <<"B", "Y">>, <<"O", "R", "D", "E", "R">>,
  <<"H", "A", "V", "I", "N", "G">>,
  <<"D", "I", "S", "T", "I", "N", "C", "T">>, <<"A", "S", "C">>,
  <<"D", "E", "S", "C">>, <<"L", "I", "M", "I", "T">>,
  <<"O", "F", "F", "S", "E", "T">>}

T_JSON_VALUE == <<"J", "S", "O", "N", "_", "V", "A", "L", "U", "E">>

\* f"JSON_VALUE(CAST({payload_col} AS STRING), '$.{key}')"
JsonValue(payload_col, key) ==
  <<"J", "S", "O", "N", "_", "V", "A", "L", "U", "E", "(", "C", "A", "S", "T", "(">>
  \o payload_col
  \o <<" ", "A", "S", " ", "S", "T", "R", "I", "N", "G", ")", ",", " ", "'", "$", ".">>
  \o key \o <<"'", ")">>

\* a character of the class [A-Z0-9_]
IsFieldCh(c) == IsUpperCh(c) \/ IsDigitCh(c) \/ c = "_"

\* _JSON_FIELD_TOKEN.match(fp, at): \b([A-Z][A-Z0-9_]*[A-Z0-9])\b anchored at
\* the 1-based index at.  The value is the index of the last character of
\* the match, 0 when there is none.  The greedy [A-Z0-9_]* takes the whole
\* run; a shorter match would end between two word characters, where \b
\* fails, so the run's end is the only end a match can have.
JSON_FIELD_TOKEN_match(t, at) ==
  IF at <= Len(t) /\ IsUpperCh(t[at]) /\ WordBoundary(t, at)
  THEN LET stops == {x \in at..Len(t) : ~IsFieldCh(t[x])}
           e == IF stops = {} THEN Len(t) ELSE SetMin(stops) - 1
       IN  IF e > at /\ (IsUpperCh(t[e]) \/ IsDigitCh(t[e])) /\ WordBoundary(t, e + 1)
           THEN e ELSE 0
  ELSE 0

\* str.isdigit()
str_isdigit(t) == t # <<>> /\ \A x \in DOMAIN t : IsDigitCh(t[x])

\* the mutant: the reserved-word test is forgotten
rewrite_token_NoReserved(token, payload_col) ==
  IF str_isdigit(token) THEN token
  ELSE IF "_" \notin Range(token) /\ Len(token) <= 3 THEN token
  ELSE JsonValue(payload_col, token)

rewrite_token(token, payload_col) ==
  IF token \in SQL_RESERVED THEN token
  ELSE IF str_isdigit(token) THEN token
  ELSE IF "_" \notin Range(token) /\ Len(token) <= 3 THEN token
  ELSE JsonValue(payload_col, token)

\* the mutant: the guard is case-sensitive and only sees the empty text
AlreadyRewritten_EmptyOnly(t) == t = <<>>

\* not fp or "JSON_VALUE" in fp.upper()
AlreadyRewritten(t) == t = <<>> \/ Contains(str_upper(t), T_JSON_VALUE)

\* the mutant: a double-quoted literal is not treated as a literal
InLiteral_SingleOnly(in_s, in_d) == in_s

\* if in_s or in_d
InLiteral(in_s, in_d) == in_s \/ in_d

----------------------------------------------------------------------------
(* Expression builder: choose_expr *)

\* row.get(field) or ''
Get(row, field) == IF field \in DOMAIN row THEN row[field] ELSE <<>>

\* a or b, on texts
OrElse(a, b) == IF a # <<>> THEN a ELSE b

T_STRING == <<"S", "T", "R", "I", "N", "G">>
T_NULL == <<"N", "U", "L", "L">>
T_JSON == <<"J", "S", "O", "N">>
T_CSV == <<"C", "S", "V">>

\* raw_payload_col = 'val' and csv_delim = ',' of generate
raw_payload_col == <<"v", "a", "l">>
csv_delim == <<",">>

\* re.match(r'^\d+$', fsel)
IsInt(t) == t # <<>> /\ \A x \in DOMAIN t : IsDigitCh(t[x])

RECURSIVE str_int(_)
\* int(fsel) of a digit text
str_int(t) ==
  IF t = <<>> THEN 0
  ELSE str_int(SubSeq(t, 1, Len(t) - 1)) * 10
         + ((CHOOSE x \in DOMAIN Digits : Digits[x] = t[Len(t)]) - 1)

RECURSIVE int_str(_)
\* f"{idx}" of a non-negative integer
int_str(n) ==
  IF n < 10 THEN <<Digits[n + 1]>>
  ELSE int_str(n \div 10) \o <<Digits[(n % 10) + 1]>>

\* re.match(r'(?is)^\s*CAST\s*\(', e)
StartsWithCast(e) ==
  LET body == {x \in DOMAIN e : ~IsSpaceCh(e[x])}
  IN  /\ body # {}
      /\ MatchesAt(str_upper(e), SetMin(body), <<"C", "A", "S", "T">>)
      /\ LET rest == {x \in body : x >= SetMin(body) + 4}
         IN  rest # {} /\ e[SetMin(rest)] = "("

\* f'CAST({e} AS {tgt})'
Cast(e, tgt) == <<"C", "A", "S", "T", "(">> \o e \o <<" ", "A", "S", " ">> \o tgt \o <<")">>

\* the mutant: the expression is cast whether or not it is one already
CastUnlessCast_Always(e, tgt) == Cast(e, tgt)

\* e if re.match(...CAST..., e) else f'CAST({e} AS {tgt})'
CastUnlessCast(e, tgt) == IF StartsWithCast(e) THEN e ELSE Cast(e, tgt)

\* (row.get('TargetDataType') or 'STRING').strip() or 'STRING'
TargetType(row) == OrElse(str_strip(OrElse(Get(row, "TargetDataType"), T_STRING)), T_STRING)

\* f"SPLIT_INDEX(CAST({srcp} AS STRING), '{csv_delim}', {idx})"
SplitIndex(srcp, delim, idx) ==
  <<"S", "P", "L", "I", "T", "_", "I", "N", "D", "E", "X", "(", "C", "A", "S", "T", "(">>
  \o srcp \o <<" ", "A", "S", " ", "S", "T", "R", "I", "N", "G", ")", ",", " ", "'">>
  \o delim \o <<"'", ",", " ">> \o int_str(idx) \o <<")">>

\* auto_csv_index.get(key, 0)
AutoIndexGet(auto_csv_index, key) ==
  IF key \in DOMAIN auto_csv_index THEN auto_csv_index[key] ELSE 0

\* the split index of a CSV row: the numeric FieldSelector, else the index
\* the allocator stored under the row's TargetColumn; a row without the key
\* TargetColumn looks up None, which is no key of auto_csv_index
CsvIndex(row, auto_csv_index) ==
  LET fsel == str_strip(Get(row, "FieldSelector"))
  IN  IF IsInt(fsel) THEN str_int(fsel)
      ELSE IF "TargetColumn" \in DOMAIN row
      THEN AutoIndexGet(auto_csv_index, row["TargetColumn"])
      ELSE 0

\* the auto-generated expression of a view row without override/transform
AutoViewExpr(row, tgt, payload_col, delim, auto_csv_index) ==
  LET mf   == str_upper(Get(row, "MessageFormat"))
      sfld == str_strip(Get(row, "SourceField"))
      fsel == str_strip(Get(row, "FieldSelector"))
      base == IF mf = T_JSON THEN JsonValue(payload_col, OrElse(sfld, fsel))
              ELSE IF mf = T_CSV
              THEN SplitIndex(OrElse(sfld, payload_col), delim,
                              CsvIndex(row, auto_csv_index))
              ELSE OrElse(sfld, payload_col)
      norm == IF MatchesAt(str_upper(tgt), 1, T_STRING)
              THEN <<"T", "R", "I", "M", "(">> \o base \o <<")">>
              ELSE <<"N", "U", "L", "L", "I", "F", "(", "T", "R", "I", "M", "(">>
                     \o base \o <<")", ",", " ", "'", "'", ")">>
  IN  Cast(norm, tgt)

\* the is_view branch of choose_expr
ViewExpr(override, stx, row, payload_col, delim, auto_csv_index) ==
  IF override # <<>> THEN CastUnlessCast(override, TargetType(row))
  ELSE IF stx # <<>> THEN CastUnlessCast(stx, TargetType(row))
  ELSE AutoViewExpr(row, TargetType(row), payload_col, delim, auto_csv_index)

\* the non-view branch of choose_expr
NonViewExpr(override, stx, row) ==
  IF override # <<>> THEN override
  ELSE IF stx # <<>> THEN stx
  ELSE IF str_strip(Get(row, "SourceField")) # <<>>
  THEN str_strip(Get(row, "SourceField"))
  ELSE OrElse(str_strip(Get(row, "TargetColumn")), T_NULL)

\* the mutant: SourceTransformExpr is looked at before ExprOverride
choose_expr_TransformFirst(row, is_view, payload_col, delim, auto_csv_index) ==
  LET override == str_strip(Get(row, "ExprOverride"))
      stx      == str_strip(Get(row, "SourceTransformExpr"))
  IN  IF is_view THEN ViewExpr(stx, override, row, payload_col, delim, auto_csv_index)
      ELSE NonViewExpr(stx, override, row)

choose_expr(row, is_view, payload_col, delim, auto_csv_index) ==
  LET override == str_strip(Get(row, "ExprOverride"))
      stx      == str_strip(Get(row, "SourceTransformExpr"))
  IN  IF is_view THEN ViewExpr(override, stx, row, payload_col, delim, auto_csv_index)
      ELSE NonViewExpr(override, stx, row)

----------------------------------------------------------------------------
(* Main generator: row order and the CSV auto index of a view unit *)

T_VIEW == <<"V", "I", "E", "W">>
T_XREF == <<"X", "R", "E", "F">>
T_FGAC == <<"F", "G", "A", "C">>

\* the characters of the model's texts in code point order
CharOrder ==
  <<"\t", "\n", "\r", " ", "\"", "$", "'", "(", ")", "+", ",", ".">> \o Digits
  \o <<":", ";", "=">> \o Upper \o <<"[", "]", "_">> \o Lower
CodeOf(c) == CHOOSE x \in DOMAIN CharOrder : CharOrder[x] = c

\* a <= b as Python compares str
TextLeq(a, b) ==
  LET differ == {x \in 1..Len(a) : x > Len(b) \/ a[x] # b[x]}
  IN  IF differ = {} THEN TRUE
      ELSE LET d == SetMin(differ)
           IN  d <= Len(b) /\ CodeOf(a[d]) < CodeOf(b[d])

\* the mutant: every stage has the same rank
StageRank_AllEqual(stage) == 0

\* {'VIEW':0,'XREF':1,'FGAC':2}.get((x or '').upper(), 99)
StageRank(stage) ==
  LET u == str_upper(stage)
  IN  IF u = T_VIEW THEN 0 ELSE IF u = T_XREF THEN 1 ELSE IF u = T_FGAC THEN 2 ELSE 99

\* 0 if str(x).upper()=='Y' else 1
PkRank(flag) == IF str_upper(flag) = <<"Y">> THEN 0 ELSE 1

\* r1 may stand before r2 under sort_values(by=['_s','TargetTable','_p','TargetColumn'])
RowLeq(r1, r2) ==
  LET s1 == StageRank(Get(r1, "PipelineStage"))
      s2 == StageRank(Get(r2, "PipelineStage"))
      t1 == Get(r1, "TargetTable")
      t2 == Get(r2, "TargetTable")
      p1 == PkRank(Get(r1, "IsTargetPK"))
      p2 == PkRank(Get(r2, "IsTargetPK"))
  IN  IF s1 # s2 THEN s1 < s2
      ELSE IF t1 # t2 THEN TextLeq(t1, t2)
      ELSE IF p1 # p2 THEN p1 < p2
      ELSE TextLeq(Get(r1, "TargetColumn"), Get(r2, "TargetColumn"))

\* a row sequence as the sort leaves it
IsSortedRows(rs) == \A x \in 1..(Len(rs) - 1) : RowLeq(rs[x], rs[x + 1])

\* where the sort puts row r among rows already sorted: behind every row that
\* may stand before it (rows with equal keys keep their file order)
InsertRow(sorted, r) ==
  LET later == {x \in DOMAIN sorted : ~RowLeq(sorted[x], r)}
      at    == IF later = {} THEN Len(sorted) + 1 ELSE SetMin(later)
  IN  SubSeq(sorted, 1, at - 1) \o <<r>> \o SubSeq(sorted, at, Len(sorted))

RECURSIVE sort_values(_)
\* mapping.sort_values(by=['_s','TargetTable','_p','TargetColumn'])
sort_values(rs) ==
  IF rs = <<>> THEN <<>>
  ELSE InsertRow(sort_values(SubSeq(rs, 1, Len(rs) - 1)), rs[Len(rs)])

\* grouped[t]: the sorted rows of table t
GroupRows(rs, t) == SelectSeq(sort_values(rs), LAMBDA r : Get(r, "TargetTable") = t)

\* stage = (rows[0].get('PipelineStage','FGAC') or 'FGAC').upper()
UnitStage(rs) == str_upper(OrElse(Get(rs[1], "PipelineStage"), T_FGAC))

\* the rows both allocator loops skip: not CSV, or with override or transform
AllocSkips(r) ==
  \/ str_upper(Get(r, "MessageFormat")) # T_CSV
  \/ str_strip(Get(r, "ExprOverride")) # <<>>
  \/ str_strip(Get(r, "SourceTransformExpr")) # <<>>

\* the mutant: the reserved indices are not skipped
next_free_NoSkip(start, reserved) == start

\* next_free(start), with the reserved set it closes over
next_free(start, reserved) ==
  SetMin({x \in start..(start + Cardinality(reserved)) : x \notin reserved})

\* the mutant: an explicit index does not move the cursor
advance_cursor_Stay(cursor, fsel_int) == cursor

\* cursor = max(cursor, int(fsel) + 1)
advance_cursor(cursor, fsel_int) ==
  IF cursor >= fsel_int + 1 THEN cursor ELSE fsel_int + 1

\* auto_idx[key] = idx
DictPut(dict, key, value) ==
  [x \in DOMAIN dict \cup {key} |-> IF x = key THEN value ELSE dict[x]]

----------------------------------------------------------------------------
(* Validations: the TargetColumn checks of validate_views_and_alignment *)

\* the mutant: every element is kept
uniq_KeepAll(seq) == seq

\* _uniq(seq): the elements in order, each at its first place only
uniq(seq) ==
  LET firsts == {x \in DOMAIN seq : \A y \in 1..(x - 1) : seq[y] # seq[x]}
      F[n \in 0..Len(seq)] ==
        IF n = 0 THEN <<>>
        ELSE IF n \in firsts THEN Append(F[n - 1], seq[n]) ELSE F[n - 1]
  IN  F[Len(seq)]

\* if r.get("TargetColumn","")
NonBlank(t) == t # <<>>

\* tgt_cols = [r.get("TargetColumn","") for r in rows if r.get("TargetColumn","")]
tgt_cols(rows) ==
  SelectSeq([x \in DOMAIN rows |-> Get(rows[x], "TargetColumn")], NonBlank)

\* tgt_cols.count(c)
Count(seq, c) == Cardinality({x \in DOMAIN seq : seq[x] = c})

\* dup = [c for c in tgt_cols if tgt_cols.count(c) > 1]
dup(cols) == SelectSeq(cols, LAMBDA c : Count(cols, c) > 1)

\* f"[{tname}] has no TargetColumn entries."
NoColumnsMessage(tname) ==
  <<"[">> \o tname \o <<"]", " ", "h", "a", "s", " ", "n", "o", " ", "T", "a", "r", "g", "e", "t", "C", "o", "l", "u", "m", "n", " ", "e", "n", "t", "r", "i", "e", "s", ".">>

\* f"[{tname}] duplicate TargetColumn: {c}"
DuplicateMessage(tname, c) ==
  <<"[">> \o tname \o <<"]", " ", "d", "u", "p", "l", "i", "c", "a", "t", "e", " ", "T", "a", "r", "g", "e", "t", "C", "o", "l", "u", "m", "n", ":", " ">> \o c

\* the errors the TargetColumn checks append for table tname
ColumnErrors(tname, rows) ==
  LET cols == tgt_cols(rows)
      dups == uniq(dup(cols))
  IN  (IF cols = <<>> THEN <<NoColumnsMessage(tname)>> ELSE <<>>)
      \o [x \in DOMAIN dups |-> DuplicateMessage(tname, dups[x])]

----------------------------------------------------------------------------
(* SQL builders: build_table_ddl *)

RECURSIVE JoinTexts(_, _)
\* sep.join(ts)
JoinTexts(sep, ts) ==
  IF ts = <<>> THEN <<>>
  ELSE IF Len(ts) = 1 THEN ts[1]
  ELSE ts[1] \o sep \o JoinTexts(sep, SubSeq(ts, 2, Len(ts)))

\* c = (r.get('TargetColumn') or '').strip()
DdlColumn(r) == str_strip(Get(r, "TargetColumn"))

\* f"  {c} {t}"
ColumnLine(c, t) == <<" ", " ">> \o c \o <<" ">> \o t

\* c and c not in cols_seen
IsNewColumn(c, cols_seen) == c # <<>> /\ c \notin cols_seen

\* c and IsTargetPK is 'Y' and c not in pk_cols
IsNewPk(r, pk_cols) ==
  /\ DdlColumn(r) # <<>>
  /\ str_upper(str_strip(Get(r, "IsTargetPK"))) = <<"Y">>
  /\ \A x \in DOMAIN pk_cols : pk_cols[x] # DdlColumn(r)

\* "  " + f"PRIMARY KEY ({', '.join(pk_cols)}) NOT ENFORCED"
PrimaryKeyLine(pk_cols) ==
  <<" ", " ">> \o <<"P", "R", "I", "M", "A", "R", "Y", " ", "K", "E", "Y", " ", "(">> \o JoinTexts(<<",", " ">>, pk_cols) \o <<")", " ", "N", "O", "T", " ", "E", "N", "F", "O", "R", "C", "E", "D">>

\* f"'{k}' = '{v}'" of one property
PropText(kv) == <<"'">> \o kv[1] \o <<"'", " ", "=", " ", "'">> \o kv[2] \o <<"'">>

\* the text build_table_ddl returns for the column lines and the props
DdlText(table_emitted, col_lines, props) ==
  <<"C", "R", "E", "A", "T", "E", " ", "T", "A", "B", "L", "E", " ", "I", "F", " ", "N", "O", "T", " ", "E", "X", "I", "S", "T", "S", " ">> \o table_emitted \o <<" ", "(", "\n">>
  \o JoinTexts(<<",", "\n">>, col_lines) \o <<"\n", ")">>
  \o (IF props # <<>>
      THEN <<"\n">> \o <<"W", "I", "T", "H", " ", "(">> \o <<"\n", " ", " ">>
           \o JoinTexts(<<",", " ">>, [x \in DOMAIN props |-> PropText(props[x])])
           \o <<"\n", ")">>
      ELSE <<>>)
  \o <<";">>

----------------------------------------------------------------------------
(* The configuration matrix: a grid of text cells under raw column headers.
   A matrix that is None, has no rows or has no columns is "missing or
   empty".  A dict is the sequence of its (key, value) pairs in insertion
   order. *)

NoMatrix == [present |-> FALSE, headers |-> <<>>, rows |-> <<>>]

\* a cell is a text, or NaN, the float read_excel(dtype=str) leaves in an
\* empty cell of a sheet, or None, which a frame built by a caller can hold:
\* (x or '') is x for NaN, and x.strip() raises AttributeError
NaN == <<"NaN">>
None == <<"None">>

\* (x or ''), x a cell that is not NaN
OrBlank(x) == IF x = None THEN <<>> ELSE x

\* matrix_df is None or matrix_df.empty
MatrixEmpty(m) == ~m.present \/ m.headers = <<>> \/ m.rows = <<>>

\* df.columns = [str(c).strip() for c in df.columns if str(c).strip()]
\* raises ValueError (length mismatch) when a header is blank
HeaderMismatch(m) == \E x \in DOMAIN m.headers : str_strip(m.headers[x]) = <<>>
NormHeaders(m) == [x \in DOMAIN m.headers |-> str_strip(m.headers[x])]

\* the columns whose header is 'key' in any letter case
KeyColumns(m) == {x \in DOMAIN m.headers : str_lower(NormHeaders(m)[x]) = <<"k", "e", "y">>}

\* the column renamed to 'Key': the first of them
KeyColumn(m) == SetMin(KeyColumns(m))

\* df.rename(columns={c: 'Key'}), c the first header that is 'key' in any
\* letter case: every column labelled c is labelled Key
RenamedHeaders(m) ==
  LET c == NormHeaders(m)[KeyColumn(m)]
  IN  [x \in DOMAIN m.headers |->
         LET header == NormHeaders(m)[x]
         IN  IF header = c THEN <<"K", "e", "y">> ELSE header]

\* table_cols = [c for c in df.columns if c != 'Key'], as column positions
TableColumns(m) ==
  LET columns == RenamedHeaders(m)
  IN  {x \in DOMAIN m.headers : columns[x] # <<"K", "e", "y">>}

\* several columns carry the label: row.get(label) is then a Series, and
\* (row.get(label) or '') raises ValueError
Repeated(m, label) ==
  LET columns == RenamedHeaders(m)
  IN  Cardinality({x \in DOMAIN m.headers : columns[x] = label}) > 1

\* the column of a label
ColumnAt(m, label) ==
  LET columns == RenamedHeaders(m)
  IN  SetMin({x \in DOMAIN m.headers : columns[x] = label})

\* the body of the loop over the rows raises at row n, cols the columns it
\* reads: AttributeError at .strip() of a NaN key cell; for a row that
\* passes 'if not key: continue', ValueError at row.get of a repeated label
\* and AttributeError at .strip() of a NaN cell
RowRaises(m, n, cols) ==
  LET key == m.rows[n][KeyColumn(m)]
  IN  \/ key = NaN
      \/ /\ str_strip(OrBlank(key)) # <<>>
         /\ \E x \in cols : Repeated(m, RenamedHeaders(m)[x]) \/ m.rows[n][x] = NaN

\* val.lower() in {'na','n/a','none'}, or no val
IsSentinel(val) == val = <<>> \/ str_lower(val) \in {<<"n", "a">>, <<"n", "/", "a">>, <<"n",
    "o", "n", "e">>}

\* d.get(key, ''), d a sequence of pairs
DictGet(d, key) ==
  LET at == {x \in DOMAIN d : d[x][1] = key}
  IN  IF at = {} THEN <<>> ELSE d[SetMin(at)][2]

\* d[key] = value: a key keeps the place of its first insertion
DictSet(d, key, value) ==
  IF \E x \in DOMAIN d : d[x][1] = key
  THEN [x \in DOMAIN d |-> IF d[x][1] = key THEN <<key, value>> ELSE d[x]]
  ELSE Append(d, <<key, value>>)

RECURSIVE str_replace(_, _, _)
\* t.replace(old, new), old not empty
str_replace(t, old, new) ==
  IF t = <<>> THEN <<>>
  ELSE IF MatchesAt(t, 1, old)
  THEN new \o str_replace(From(t, Len(old) + 1), old, new)
  ELSE <<t[1]>> \o str_replace(From(t, 2), old, new)

\* the props the rows of the matrix give column col: rows with a blank key
\* or a sentinel cell give none, a later row of a key replaces the value
ColumnProps(m, col) ==
  LET F[n \in 0..Len(m.rows)] ==
        IF n = 0 THEN <<>>
        ELSE LET key == str_strip(OrBlank(m.rows[n][KeyColumn(m)]))
                 val == str_strip(OrBlank(m.rows[n][col]))
             IN  IF key = <<>> \/ IsSentinel(val) THEN F[n - 1]
                 ELSE DictSet(F[n - 1], key, val)
  IN  F[Len(m.rows)]

----------------------------------------------------------------------------
(* Table DDL props: resolve_table_props *)

T_MACRO == <<"$", "{", "t", "a", "b", "l", "e", "_", "n", "a", "m", "e", "}">>

\* val.replace("${table_name}", table_emitted)
ExpandMacro(val, table_emitted) == str_replace(val, T_MACRO, table_emitted)

\* colname: the label of the logical name, else of the emitted name, among
\* the labels of table_headers; the empty text when the function returns {}
ResolveColumn(table_logical, table_emitted, m) ==
  LET table_headers == {RenamedHeaders(m)[x] : x \in TableColumns(m)}
  IN  IF table_logical \in table_headers THEN table_logical
      ELSE IF table_emitted \in table_headers THEN table_emitted
      ELSE <<>>

\* the loop over the rows raises: at row.get("Key") of the first row when
\* the label Key is repeated, else at a row whose key cell or whose cell
\* under colname does
ResolveLoopRaises(m, colname) ==
  /\ m.rows # <<>>
  /\ \/ Repeated(m, <<"K", "e", "y">>)
     \/ \E n \in DOMAIN m.rows : RowRaises(m, n, {ColumnAt(m, colname)})

\* resolve_table_props: the props returned, or raised when the call ends in
\* an exception
resolve_table_props(table_logical, table_emitted, m) ==
  IF MatrixEmpty(m) THEN [raised |-> FALSE, props |-> <<>>]
  ELSE IF HeaderMismatch(m) THEN [raised |-> TRUE, props |-> <<>>]
  ELSE IF KeyColumns(m) = {} THEN [raised |-> FALSE, props |-> <<>>]
  ELSE IF ResolveColumn(table_logical, table_emitted, m) = <<>>
  THEN [raised |-> FALSE, props |-> <<>>]
  ELSE IF ResolveLoopRaises(m, ResolveColumn(table_logical, table_emitted, m))
  THEN [raised |-> TRUE, props |-> <<>>]
  ELSE LET kept == ColumnProps(m, ColumnAt(m, ResolveColumn(table_logical, table_emitted,
                                                           m)))
       IN  [raised |-> FALSE,
            props |-> [x \in DOMAIN kept |->
                         <<kept[x][1], ExpandMacro(kept[x][2], table_emitted)>>]]

----------------------------------------------------------------------------
(* Validations: validate_against_matrix *)

MissingTargetTableMessage == <<"M", "i", "s", "s", "i", "n", "g", " ", "T", "a", "r", "g",
    "e", "t", "T", "a", "b", "l", "e", " ", "c", "o", "l", "u", "m", "n", " ", "i", "n", " ",
        "m", "a", "p", "p", "i", "n", "g", ".">>
MatrixMissingMessage == <<"C", "o", "n", "f", "i", "g", "_", "T", "a", "b", "l", "e", "M",
    "a", "t", "r", "i", "x", " ", "s", "h", "e", "e", "t", " ", "m", "i", "s", "s", "i", "n",
        "g", " ", "o", "r", " ", "e", "m", "p", "t", "y", ".">>
NoKeyColumnMessage == <<"C", "o", "n", "f", "i", "g", "_", "T", "a", "b", "l", "e", "M", "a",
    "t", "r", "i", "x", " ", "m", "u", "s", "t", " ", "c", "o", "n", "t", "a", "i", "n", " ",
        "a", " ", "'", "K", "e", "y", "'", " ", "c", "o", "l", "u", "m", "n", " ", "(", "a",
            "n", "y", " ", "c", "a", "s", "e", ")", ".">>
MissingPropsMessage(t) ==
  <<"[", "C", "o", "n", "f", "i", "g", "_", "T", "a", "b", "l", "e", "M", "a", "t", "r", "i",
      "x", "]", " ", "M", "i", "s", "s", "i", "n", "g", " ", "p", "e", "r", "-", "t", "a",
          "b", "l", "e", " ", "p", "r", "o", "p", "e", "r", "t", "i", "e", "s", " ", "f", "o",
              "r", " ", "m", "a", "p", "p", "i", "n", "g", " ", "T", "a", "r", "g", "e", "t",
                  "T", "a", "b", "l", "e", " ", "'">>
  \o t \o <<"'", ".">>
T_CHANGELOG_MODE == <<"c", "h", "a", "n", "g", "e", "l", "o", "g", ".", "m", "o", "d", "e">>
T_UPSERT == <<"u", "p", "s", "e", "r", "t">>
XrefUpsertMessage(t, cm) ==
  <<"[", "C", "o", "n", "f", "i", "g", "_", "T", "a", "b", "l", "e", "M", "a", "t", "r", "i",
      "x", "]", " ", "X", "R", "E", "F", " ", "t", "a", "b", "l", "e", " ", "'">> \o t
  \o <<"'", " ", "m", "u", "s", "t", " ", "s", "e", "t", " ", "c", "h", "a", "n", "g", "e",
      "l", "o", "g", ".", "m", "o", "d", "e", "=", "u", "p", "s", "e", "r", "t", " ", "(",
          "f", "o", "u", "n", "d", " ", "'">>
  \o OrElse(cm, <<"m", "i", "s", "s", "i", "n", "g">>) \o <<"'", ")", ".">>
UnusedColumnMessage(tcol) ==
  <<"[", "C", "o", "n", "f", "i", "g", "_", "T", "a", "b", "l", "e", "M", "a", "t", "r", "i",
      "x", "]", " ", "C", "o", "l", "u", "m", "n", " ", "'">> \o tcol
  \o <<"'", " ", "n", "o", "t", " ", "f", "o", "u", "n", "d", " ", "i", "n", " ", "m", "a",
      "p", "p", "i", "n", "g", " ", "T", "a", "r", "g", "e", "t", "T", "a", "b", "l", "e",
          " ", "l", "i", "s", "t", " ", "(", "a", "s", "s", "u", "m", "i", "n", "g", " ", "e",
              "x", "t", "e", "r", "n", "a", "l", "/", "p", "r", "e", "-", "e", "x", "i", "s",
                  "t", "i", "n", "g", ")", ".">>
DuplicateKeysMessage(tcol) ==
  <<"[", "C", "o", "n", "f", "i", "g", "_", "T", "a", "b", "l", "e", "M", "a", "t", "r", "i",
      "x", "]", " ", "D", "u", "p", "l", "i", "c", "a", "t", "e", " ", "k", "e", "y", "s",
          " ", "d", "e", "t", "e", "c", "t", "e", "d", " ", "f", "o", "r", " ", "t", "a", "b",
              "l", "e", " ", "c", "o", "l", "u", "m", "n", " ", "'">> \o tcol
  \o <<"'", " ", "(", "l", "a", "s", "t", " ", "v", "a", "l", "u", "e", " ", "w", "i", "l",
      "l", " ", "w", "i", "n", ")", ".">>

RECURSIVE SortTexts(_)
\* the texts of the set s in ascending order
SortTexts(s) ==
  IF s = {} THEN <<>>
  ELSE LET least == CHOOSE t \in s : \A u \in s : TextLeq(t, u)
       IN  <<least>> \o SortTexts(s \ {least})

\* A set of str is met in an order that follows the hashes of its elements,
\* which differ from one run of the interpreter to the next: a set is the
\* sequence of its elements in the order a loop over it meets them.
Iterations(s) == {q \in [1..Cardinality(s) -> s] : Range(q) = s}

\* the mutant: the elements as the loop meets them
py_sorted_AsIterated(iterated) == iterated

\* sorted(mapping_tables)
py_sorted(iterated) == SortTexts(Range(iterated))

\* the loop that builds per_table raises: at row.get('Key') of the first row
\* when the label Key is repeated, else at a row whose key cell or one of
\* whose cells under the table columns does
PerTableRaises(m) ==
  /\ m.rows # <<>>
  /\ \/ Repeated(m, <<"K", "e", "y">>)
     \/ \E n \in DOMAIN m.rows : RowRaises(m, n, TableColumns(m))

\* the loop of check 4 raises: it reads the cell of every row, with a key or
\* not, under every table column (ValueError for a repeated label,
\* AttributeError for a NaN cell), and the key cell of the rows it counts
DuplicateCheckRaises(m) ==
  /\ m.rows # <<>>
  /\ \E x \in TableColumns(m) :
        \/ Repeated(m, RenamedHeaders(m)[x])
        \/ \E n \in DOMAIN m.rows :
              \/ m.rows[n][x] = NaN
              \/ /\ str_strip(OrBlank(m.rows[n][x])) # <<>>
                 /\ str_lower(m.rows[n][x]) \notin {<<"n", "a">>, <<"n", "/", "a">>,
                                                     <<"n", "o", "n", "e">>}
                 /\ m.rows[n][KeyColumn(m)] = NaN

\* per_table.get(t, {}): the props of the column labelled t, or raised when
\* building per_table ends in an exception
TableProps(m, t) ==
  LET cols == {x \in TableColumns(m) : RenamedHeaders(m)[x] = t}
  IN  IF PerTableRaises(m) THEN [raised |-> TRUE, props |-> <<>>]
      ELSE IF cols = {} THEN [raised |-> FALSE, props |-> <<>>]
      ELSE [raised |-> FALSE, props |-> ColumnProps(m, SetMin(cols))]


\* t.upper().startswith("XREF_")
IsXrefName(t) == MatchesAt(str_upper(t), 1, <<"X", "R", "E", "F", "_">>)

\* checks 1 and 2, for one mapping table
TableErrors(m, t) ==
  LET props == TableProps(m, t).props
      cm    == str_lower(str_strip(DictGet(props, T_CHANGELOG_MODE)))
  IN  (IF props = <<>> THEN <<MissingPropsMessage(t)>> ELSE <<>>)
      \o (IF IsXrefName(t) /\ cm # T_UPSERT THEN <<XrefUpsertMessage(t, cm)>> ELSE <<>>)

\* check 4: the keys of the rows whose cell in the column counts
DuplicateKeys(m, col) ==
  LET rows == {x \in DOMAIN m.rows :
                 /\ str_strip(OrBlank(m.rows[x][col])) # <<>>
                 /\ str_lower(m.rows[x][col]) \notin {<<"n", "a">>, <<"n", "/", "a">>, <<"n",
                     "o", "n", "e">>}}
  IN  \E x, y \in rows :
        x # y /\ str_strip(OrBlank(m.rows[x][KeyColumn(m)]))
                   = str_strip(OrBlank(m.rows[y][KeyColumn(m)]))

\* the findings once the matrix has a Key column: checks 1 to 4
MatrixFindings(mapping_tables, m) ==
  LET ts   == py_sorted(mapping_tables)
      cols == TableColumns(m)
      E[n \in 0..Len(ts)] == IF n = 0 THEN <<>> ELSE E[n - 1] \o TableErrors(m, ts[n])
      W3[n \in 0..Len(m.headers)] ==
        IF n = 0 THEN <<>>
        ELSE IF n \in cols /\ NormHeaders(m)[n] \notin Range(mapping_tables)
        THEN Append(W3[n - 1], UnusedColumnMessage(NormHeaders(m)[n]))
        ELSE W3[n - 1]
      W4[n \in 0..Len(m.headers)] ==
        IF n = 0 THEN <<>>
        ELSE IF n \in cols /\ DuplicateKeys(m, n)
        THEN Append(W4[n - 1], DuplicateKeysMessage(NormHeaders(m)[n]))
        ELSE W4[n - 1]
  IN  IF PerTableRaises(m) \/ DuplicateCheckRaises(m)
      THEN [raised |-> TRUE, errors |-> <<>>, warnings |-> <<>>]
      ELSE [raised |-> FALSE, errors |-> E[Len(ts)],
            warnings |-> W3[Len(m.headers)] \o W4[Len(m.headers)]]

\* validate_against_matrix: errors and warnings, or raised when the call ends
\* in an exception; mapping_tables is the set as a loop over it meets it
validate_against_matrix(has_target_table, mapping_tables, m) ==
  IF ~has_target_table
  THEN [raised |-> FALSE, errors |-> <<MissingTargetTableMessage>>, warnings |-> <<>>]
  ELSE IF MatrixEmpty(m)
  THEN [raised |-> FALSE, errors |-> <<MatrixMissingMessage>>, warnings |-> <<>>]
  ELSE IF HeaderMismatch(m)
  THEN [raised |-> TRUE, errors |-> <<>>, warnings |-> <<>>]
  ELSE IF KeyColumns(m) = {}
  THEN [raised |-> FALSE, errors |-> <<NoKeyColumnMessage>>, warnings |-> <<>>]
  ELSE MatrixFindings(mapping_tables, m)

----------------------------------------------------------------------------
(* Matrix loader: load_table_matrix.  read_excel(dtype=str) leaves NaN in
   an empty cell of the sheet; nothing replaces it here. *)

\* the loop over the rows raises: at row.get('Key') of the first row when
\* the label Key is repeated, else at a row whose key cell or one of whose
\* cells under the table columns does
LoadLoopRaises(m) ==
  /\ m.rows # <<>>
  /\ \/ Repeated(m, <<"K", "e", "y">>)
     \/ \E n \in DOMAIN m.rows : RowRaises(m, n, TableColumns(m))

\* load_table_matrix(xl): the third value returned, the sheet with its
\* headers trimmed and its key column renamed, or raised when the call ends
\* in an exception; no sheet and an empty sheet give an empty frame
load_table_matrix(m) ==
  IF MatrixEmpty(m) THEN [raised |-> FALSE, df |-> NoMatrix]
  ELSE IF HeaderMismatch(m) THEN [raised |-> TRUE, df |-> NoMatrix]
  ELSE IF KeyColumns(m) = {}
  THEN [raised |-> FALSE, df |-> [m EXCEPT !.headers = NormHeaders(m)]]
  ELSE IF LoadLoopRaises(m) THEN [raised |-> TRUE, df |-> NoMatrix]
  ELSE [raised |-> FALSE, df |-> [m EXCEPT !.headers = RenamedHeaders(m)]]

----------------------------------------------------------------------------
(* SQL builders: build_view_sql and build_insert_sql.  A unit's rows come
   with exprs, the text r['__expr__'] of each row. *)

\* the grave accent of qident: a TLA+ string cannot hold that character, so
\* the texts of the model carry this one element in its place
Backtick == "BACKTICK"

\* qident(name)
qident(name) ==
  LET s == str_strip(name)
  IN  IF s = <<>> THEN s
      ELSE IF s[1] \in {Backtick, "("} THEN s
      ELSE <<Backtick>> \o s \o <<Backtick>>

\* f"  {row['__expr__']} AS {row['TargetColumn']}" of the rows with a TargetColumn
SelectLines(rows, exprs) ==
  LET with == SelectSeq([x \in DOMAIN rows |-> x],
                        LAMBDA x : Get(rows[x], "TargetColumn") # <<>>)
  IN  [y \in DOMAIN with |->
         <<" ", " ">> \o exprs[with[y]] \o <<" ", "A", "S",
             " ">> \o Get(rows[with[y]], "TargetColumn")]

T_DUMMY_SOURCE == <<"(", "V", "A", "L", "U", "E", "S", "(", "1", ")", ")", " ", "t", "(", "d",
    "u", "m", "m", "y", ")">>

\* the driving table of the first row that names one, with its alias or 't'
DrivingTable(rows) ==
  LET with == {x \in DOMAIN rows : Get(rows[x], "SourcePrimaryTable") # <<>>}
  IN  IF with = {} THEN T_DUMMY_SOURCE
      ELSE LET r == rows[SetMin(with)]
               src == qident(Get(r, "SourcePrimaryTable")) \o <<" ">>
                      \o OrElse(Get(r, "SourcePrimaryAlias"), <<"t">>)
           IN  src

\* f"\nWHERE {predicate}" if predicate else ""
WhereClause(predicate) ==
  IF predicate # <<>> THEN <<"\n", "W", "H", "E", "R", "E", " ">> \o predicate ELSE <<>>

\* build_view_sql(table_emitted, rows, raw_payload_col, filter_predicate)
build_view_sql(table_emitted, rows, exprs, filter_predicate) ==
  <<"C", "R", "E", "A", "T", "E", " ", "V", "I", "E", "W", " ">> \o table_emitted \o <<" ",
      "A", "S", "\n", "S", "E", "L", "E", "C", "T", "\n">>
  \o JoinTexts(<<",", "\n">>, SelectLines(rows, exprs))
  \o <<"\n", "F", "R", "O", "M",
      " ">> \o DrivingTable(rows) \o WhereClause(filter_predicate) \o <<";">>

JoinKinds == {<<"I", "N", "N", "E", "R">>, <<"L", "E", "F", "T">>, <<"R", "I", "G", "H",
    "T">>, <<"F", "U", "L", "L">>}

\* jty = (r.get('JoinType','') or 'LEFT').upper(); LEFT unless one of the four
JoinKind(r) ==
  LET jty == str_upper(OrElse(Get(r, "JoinType"), <<"L", "E", "F", "T">>))
  IN  IF jty \in JoinKinds THEN jty ELSE <<"L", "E", "F", "T">>

\* ja = (r.get('JoinAlias','') or 'j').strip()
JoinAlias(r) == str_strip(OrElse(Get(r, "JoinAlias"), <<"j">>))

\* jt and jc
HasJoin(r) ==
  str_strip(Get(r, "JoinTable")) # <<>> /\ str_strip(Get(r, "JoinCondition")) # <<>>

\* the row the loop of build_insert_sql breaks at (0: none)
JoinRow(rows) ==
  LET with == {x \in DOMAIN rows : HasJoin(rows[x])}
  IN  IF with = {} THEN 0 ELSE SetMin(with)

\* join = f'\n  {jty} JOIN {jt} {ja} ON {jc}' of the first row with both fields
JoinClause(rows) ==
  IF JoinRow(rows) = 0 THEN <<>>
  ELSE LET r == rows[JoinRow(rows)]
       IN  <<"\n", " ", " ">> \o JoinKind(r) \o <<" ", "J", "O", "I", "N", " ">>
           \o str_strip(Get(r, "JoinTable")) \o <<" ">> \o JoinAlias(r)
           \o <<" ", "O", "N", " ">> \o str_strip(Get(r, "JoinCondition"))

\* build_insert_sql(table_emitted, rows, where_predicate)
build_insert_sql(table_emitted, rows, exprs, where_predicate) ==
  <<"I", "N", "S", "E", "R", "T", " ", "I", "N", "T", "O", " ">> \o table_emitted \o <<" ", "(">>
  \o JoinTexts(<<",", " ">>, tgt_cols(rows)) \o <<")", "\n", "S", "E", "L", "E", "C", "T", "\n">>
  \o JoinTexts(<<",", "\n">>, SelectLines(rows, exprs))
  \o <<"\n", "F", "R", "O", "M", " ">> \o DrivingTable(rows) \o JoinClause(rows)
  \o WhereClause(where_predicate) \o <<";">>

----------------------------------------------------------------------------
(* Main generator: from the mapping sheet to the consolidated SQL.  A mapping
   is a frame: its column labels, its index and the cells of its rows, in
   file order.  Two headers of the sheet that differ only in surrounding
   blanks become one label once norm_cols has stripped them. *)

T_NAN == <<"n", "a", "n">>

\* '' if str(x).strip().lower() == 'nan' else str(x).strip(), after
\* astype(str): str(x) is 'nan' for a NaN cell and 'None' for a None cell
norm_cell(x) ==
  IF x = NaN THEN <<>>
  ELSE IF x = None THEN <<"N", "o", "n", "e">>
  ELSE IF str_lower(str_strip(x)) = T_NAN THEN <<>>
  ELSE str_strip(x)

\* A frame is the record of its column labels (texts, in sheet order), its
\* index (the number read_excel gave each row) and the cells of its rows in
\* the order of the labels.

\* str(c).strip()
strip_header(c) == str_strip(c)

\* two columns of the frame carry one label
HasRepeatedLabel(df) == Cardinality(Range(df.columns)) < Len(df.columns)

\* df.columns = [str(c).strip() for c in df.columns]
StripHeaders(df) ==
  [df EXCEPT !.columns = [k \in DOMAIN df.columns |-> strip_header(df.columns[k])]]

\* the releases of pandas the code behaves differently on: before 2.1 a
\* DataFrame has no map; from 3.0 a Series of str has the dtype str, where
\* it had the dtype object
PandasBuilds == {"2.0", "2.1", "3.0"}
HasDataFrameMap(build) == build # "2.0"
SeriesDtype(build) == IF build = "3.0" THEN <<"s", "t", "r">> ELSE <<"o", "b", "j", "e", "c", "t">>

\* df[c].astype(str).fillna('').map(...) raises AttributeError: under a label
\* of several columns df[c] is a DataFrame, which has no map before pandas 2.1
NormColsRaises(df, build) == ~HasDataFrameMap(build) /\ HasRepeatedLabel(StripHeaders(df))

\* norm_cols(df) when it returns: the headers are stripped, then the cells of
\* every column are normalised, those of the columns that share a label too
norm_cols(df) ==
  [StripHeaders(df) EXCEPT
     !.rows = [x \in DOMAIN df.rows |->
                 [k \in DOMAIN df.rows[x] |-> norm_cell(df.rows[x][k])]]]

RECURSIVE Name(_)
\* a str as the key of a dict: the string of its characters
Name(t) == IF t = <<>> THEN "" ELSE t[1] \o Name(Tail(t))

\* the labels of the frame, as keys
Labels(df) == {Name(df.columns[k]) : k \in DOMAIN df.columns}

\* the columns labelled c, in the order of the frame
ColumnsLabelled(df, c) ==
  SelectSeq([k \in DOMAIN df.columns |-> k], LAMBDA k : Name(df.columns[k]) = c)

\* pprint_thing(x, escape_chars=('\t', '\r', '\n')) of a str
Escaped(t) ==
  Flatten([x \in DOMAIN t |->
             IF t[x] = "\t" THEN <<"\\", "t">>
             ELSE IF t[x] = "\r" THEN <<"\\", "r">>
             ELSE IF t[x] = "\n" THEN <<"\\", "n">>
             ELSE <<t[x]>>])

\* display.max_colwidth
max_colwidth == 50

\* the values of a Series of str in its printout: a blank before each, the
\* text cut at max_colwidth, all right-justified to the widest
SeriesValues(vals) ==
  LET shown == [x \in DOMAIN vals |-> <<" ">> \o Escaped(vals[x])]
      widest == SetMax({Len(shown[x]) : x \in DOMAIN shown})
      width == IF widest > max_colwidth THEN max_colwidth ELSE widest
      cut == [x \in DOMAIN shown |->
                IF Len(shown[x]) > width
                THEN SubSeq(shown[x], 1, width - 3) \o <<".", ".", ".">>
                ELSE shown[x]]
  IN  [x \in DOMAIN cut |-> [y \in 1..(width - Len(cut[x])) |-> " "] \o cut[x]]

\* str(s), s the Series r.get(c) of the cells of row r under the label c of
\* several columns: one line per column, then the index of the row
SeriesText(label, vals, name, dtype) ==
  JoinTexts(<<"\n">>,
            [x \in DOMAIN vals |->
               Escaped(label) \o <<" ", " ", " ">> \o SeriesValues(vals)[x]])
  \o <<"\n", "N", "a", "m", "e", ":", " ">> \o int_str(name) \o <<",", " ", "d", "t", "y",
      "p", "e", ":", " ">> \o dtype

\* str(r.get(c, '')), r the row x of df and c the label of column k
CellText(df, x, k) ==
  LET at == SelectSeq([i \in DOMAIN df.columns |-> i],
                      LAMBDA i : df.columns[i] = df.columns[k])
  IN  IF Len(at) = 1 THEN df.rows[x][k]
      ELSE SeriesText(df.columns[k], [i \in DOMAIN at |-> df.rows[x][at[i]]], df.index[x],
                      SeriesDtype(gn_pandas))

\* the rows of df.iterrows(), each as the dict
\* {c: str(r.get(c, '')) for c in df.columns}
RowDicts(df) ==
  LET names == [k \in DOMAIN df.columns |-> Name(df.columns[k])]
      first == [c \in Range(names) |-> SetMin({k \in DOMAIN names : names[k] = c})]
  IN  [x \in DOMAIN df.rows |-> [c \in DOMAIN first |-> CellText(df, x, first[c])]]

\* the columns lines 269-271 read.  A column the sheet lacks:
\* mapping['PipelineStage'] and sort_values raise KeyError,
\* mapping.get('IsTargetPK','').apply raises AttributeError.  A label of
\* several columns: the apply of line 269 and the assignment of line 270
\* raise ValueError, and so does sort_values (the label is not unique)
SortColumns == {"PipelineStage", "IsTargetPK", "TargetTable", "TargetColumn"}
SortRaises(mapping) == \E c \in SortColumns : Len(ColumnsLabelled(mapping, c)) # 1

\* row = {c: str(r.get(c, '')).strip() for c in mapping.columns}
StripRow(r) == [c \in DOMAIN r |-> str_strip(r[c])]

\* the keys of grouped, in insertion order: the tables of the sorted rows,
\* each at its first row, the blank one left out
GroupedTables(sorted) ==
  uniq(SelectSeq([x \in DOMAIN sorted |-> Get(StripRow(sorted[x]), "TargetTable")],
                 NonBlank))

\* grouped[t]
GroupedRows(sorted, t) ==
  SelectSeq([x \in DOMAIN sorted |-> StripRow(sorted[x])],
            LAMBDA r : Get(r, "TargetTable") = t)

\* grouped.items()
grouped(sorted) ==
  [u \in DOMAIN GroupedTables(sorted) |->
     [logical |-> GroupedTables(sorted)[u],
      rows |-> GroupedRows(sorted, GroupedTables(sorted)[u])]]

\* the first allocator loop: the numeric FieldSelectors of the CSV rows
ReservedIndexes(rows) ==
  {str_int(str_strip(Get(rows[x], "FieldSelector"))) :
     x \in {y \in DOMAIN rows : /\ ~AllocSkips(rows[y])
                                /\ IsInt(str_strip(Get(rows[y], "FieldSelector")))}}

\* the second allocator loop, run over all rows
AllocLoop(rows) ==
  LET F[n \in 0..Len(rows)] ==
        IF n = 0
        THEN [cursor |-> 0, reserved |-> ReservedIndexes(rows), auto_idx |-> <<>>]
        ELSE LET p == F[n - 1]
                 r == rows[n]
                 fsel == str_strip(Get(r, "FieldSelector"))
             IN  IF AllocSkips(r) THEN p
                 ELSE IF IsInt(fsel)
                 THEN [p EXCEPT !.cursor = advance_cursor(p.cursor, str_int(fsel))]
                 ELSE LET idx == next_free(p.cursor, p.reserved)
                      IN  [cursor |-> idx + 1,
                           reserved |-> p.reserved \cup {idx},
                           auto_idx |-> DictPut(p.auto_idx, Get(r, "TargetColumn"), idx)]
  IN  F[Len(rows)]

\* the mutant: the set of the unit before is carried on
FreshReserved_Kept(previous) == previous

\* reserved = set() (line 296): whatever the local held before is gone
FreshReserved(previous) == {}

\* cursor = 0 (line 308)
FreshCursor(previous) == 0

\* auto_idx = {} (line 294)
FreshAutoIdx(previous) == <<>>

\* the first allocator loop (lines 297-302), adding to the set reserved
ReserveFrom(reserved, rows) == reserved \cup ReservedIndexes(rows)

\* the second allocator loop (lines 309-319), from the locals as they stand
AllocFrom(rows, cursor, reserved, auto_idx) ==
  LET F[n \in 0..Len(rows)] ==
        IF n = 0
        THEN [cursor |-> cursor, reserved |-> reserved, auto_idx |-> auto_idx]
        ELSE LET p == F[n - 1]
                 r == rows[n]
                 fsel == str_strip(Get(r, "FieldSelector"))
             IN  IF AllocSkips(r) THEN p
                 ELSE IF IsInt(fsel)
                 THEN [p EXCEPT !.cursor = advance_cursor(p.cursor, str_int(fsel))]
                 ELSE LET idx == next_free(p.cursor, p.reserved)
                      IN  [cursor |-> idx + 1,
                           reserved |-> p.reserved \cup {idx},
                           auto_idx |-> DictPut(p.auto_idx, Get(r, "TargetColumn"), idx)]
  IN  F[Len(rows)]

\* auto_idx of a unit: empty unless the unit is a view
UnitAutoIdx(rows, is_view) == IF is_view THEN AllocLoop(rows).auto_idx ELSE <<>>

\* r['__expr__'] of each row
UnitExprs(rows, is_view) ==
  [x \in DOMAIN rows |->
     choose_expr(rows[x], is_view, raw_payload_col, csv_delim, UnitAutoIdx(rows, is_view))]

\* the locals of rewrite_predicate_as_json before the loop: out, i as a
\* 1-based index, in_s and in_d
RewriteStart == [out |-> <<>>, i |-> 1, in_s |-> FALSE, in_d |-> FALSE]

\* one pass of the while loop from the locals s; once i has reached the end
\* of fp the loop is over and the locals stay as they are
RewritePass(fp, payload_col, s) ==
  IF s.i > Len(fp) THEN s
  ELSE IF fp[s.i] = "'" /\ ~s.in_d
  THEN [s EXCEPT !.out = @ \o <<fp[s.i]>>, !.i = @ + 1, !.in_s = ~@]
  ELSE IF fp[s.i] = "\"" /\ ~s.in_s
  THEN [s EXCEPT !.out = @ \o <<fp[s.i]>>, !.i = @ + 1, !.in_d = ~@]
  ELSE IF InLiteral(s.in_s, s.in_d)
  THEN [s EXCEPT !.out = @ \o <<fp[s.i]>>, !.i = @ + 1]
  ELSE IF JSON_FIELD_TOKEN_match(fp, s.i) > 0
  THEN LET e == JSON_FIELD_TOKEN_match(fp, s.i)
       IN  [s EXCEPT !.out = @ \o rewrite_token(SubSeq(fp, s.i, e), payload_col),
                     !.i = e + 1]
  ELSE [s EXCEPT !.out = @ \o <<fp[s.i]>>, !.i = @ + 1]

RECURSIVE RewritePasses(_, _, _, _)
\* count passes of the loop from the locals s: the first half of them, then
\* the others
RewritePasses(fp, payload_col, s, count) ==
  IF s.i > Len(fp) \/ count = 0 THEN s
  ELSE IF count = 1 THEN RewritePass(fp, payload_col, s)
  ELSE LET half == count \div 2
       IN  RewritePasses(fp, payload_col, RewritePasses(fp, payload_col, s, half),
                         count - half)

\* rewrite_predicate_as_json(fp, payload_col), as one function: every pass
\* moves i on, so that after len(fp) passes the loop is over
rewrite_predicate_as_json(fp, payload_col) ==
  IF AlreadyRewritten(fp) THEN fp
  ELSE RewritePasses(fp, payload_col, RewriteStart, Len(fp)).out

\* (r.get("IsTargetPK","") or '').upper() == "Y"
IsPkRow(r) == str_upper(Get(r, "IsTargetPK")) = <<"Y">>

\* (r.get("FilterPredicate","") or '').strip()
RowFilter(r) == str_strip(Get(r, "FilterPredicate"))

\* pk_filter: the filter of the first row flagged Y that has one
pk_filter(rows) ==
  LET with == {x \in DOMAIN rows : IsPkRow(rows[x]) /\ RowFilter(rows[x]) # <<>>}
  IN  IF with = {} THEN <<>> ELSE RowFilter(rows[SetMin(with)])

\* filt_sql
filt_sql(rows) ==
  IF pk_filter(rows) # <<>>
  THEN rewrite_predicate_as_json(sanitize_predicate(pk_filter(rows)), raw_payload_col)
  ELSE <<>>

\* clean and clean not in seen
NewPredicate(clean, preds) ==
  clean # <<>> /\ \A x \in DOMAIN preds : preds[x] # clean

\* preds: the sanitized filters of the rows, each at its first place
NonViewPreds(rows) ==
  LET F[n \in 0..Len(rows)] ==
        IF n = 0 THEN <<>>
        ELSE LET fp == RowFilter(rows[n])
                 clean == sanitize_predicate(fp)
             IN  IF fp # <<>> /\ NewPredicate(clean, F[n - 1])
                 THEN Append(F[n - 1], clean) ELSE F[n - 1]
  IN  F[Len(rows)]

\* where_nonview = ' AND '.join(preds)
where_nonview(rows) == JoinTexts(<<" ", "A", "N", "D", " ">>, NonViewPreds(rows))

\* f'-- >>> {emitted}\n' + statement
Labelled(emitted, statement) == <<"-", "-", " ", ">", ">", ">",
    " ">> \o emitted \o <<"\n">> \o statement

\* build_table_ddl(table_emitted, rows, props), as one function
build_table_ddl(table_emitted, rows, props) ==
  LET F[n \in 0..Len(rows)] ==
        IF n = 0 THEN [cols_seen |-> {}, col_lines |-> <<>>, pk_cols |-> <<>>]
        ELSE LET p == F[n - 1]
                 r == rows[n]
                 c == DdlColumn(r)
                 t == TargetType(r)
                 new == IsNewColumn(c, p.cols_seen)
             IN  [cols_seen |-> IF new THEN p.cols_seen \cup {c} ELSE p.cols_seen,
                  col_lines |-> IF new THEN Append(p.col_lines, ColumnLine(c, t))
                                ELSE p.col_lines,
                  pk_cols |-> IF IsNewPk(r, p.pk_cols) THEN Append(p.pk_cols, c)
                              ELSE p.pk_cols]
      last == F[Len(rows)]
  IN  DdlText(table_emitted,
              IF last.pk_cols # <<>>
              THEN Append(last.col_lines, PrimaryKeyLine(last.pk_cols))
              ELSE last.col_lines,
              props)

T_VIEWS_HEADER == <<"-", "-", " ", "=", "=", "=", "=", "=", " ", "V", "I", "E", "W", "S", " ",
    "=", "=", "=", "=", "=", "\n">>
T_TABLES_HEADER == <<"-", "-", " ", "=", "=", "=", "=", "=", " ", "T", "A", "B", "L", "E",
    "S", " ", "(", "K", "a", "f", "k", "a", " ", "+", " ", "A", "v", "r", "o", ")", " ", "=",
        "=", "=", "=", "=", "\n">>
T_INSERTS_HEADER == <<"-", "-", " ", "=", "=", "=", "=", "=", " ", "I", "N", "S", "E", "R",
    "T", " ", "S", "T", "A", "T", "E", "M", "E", "N", "T", " ", "S", "E", "T", " ", "=", "=",
        "=", "=", "=", "\n">>
T_BEGIN == <<"E", "X", "E", "C", "U", "T", "E", " ", "S", "T", "A", "T", "E", "M", "E", "N",
    "T", " ", "S", "E", "T", "\n", "B", "E", "G", "I", "N", "\n", "\n">>
T_END == <<"\n", "\n", "E", "N", "D", ";">>

\* parts of the statement set: the XREF inserts, then the others
StatementSetParts(xref_inserts, fgac_inserts) ==
  (IF xref_inserts # <<>>
   THEN <<str_strip(JoinTexts(<<"\n", "\n">>, xref_inserts))>> ELSE <<>>)
  \o (IF fgac_inserts # <<>>
      THEN <<str_strip(JoinTexts(<<"\n", "\n">>, fgac_inserts))>> ELSE <<>>)

\* the mutant: the table definitions come before the views
Sections_TablesFirst(views_sql, ddls_sql, xref_inserts, fgac_inserts) ==
  (IF ddls_sql # <<>>
   THEN <<T_TABLES_HEADER \o str_strip(JoinTexts(<<"\n", "\n">>, ddls_sql))>>
   ELSE <<>>)
  \o (IF views_sql # <<>>
      THEN <<T_VIEWS_HEADER \o str_strip(JoinTexts(<<"\n", "\n">>, views_sql))>>
      ELSE <<>>)
  \o (IF xref_inserts # <<>> \/ fgac_inserts # <<>>
      THEN <<T_INSERTS_HEADER \o T_BEGIN
             \o JoinTexts(<<"\n", "\n">>, StatementSetParts(xref_inserts, fgac_inserts))
             \o T_END>>
      ELSE <<>>)

\* sections
Sections(views_sql, ddls_sql, xref_inserts, fgac_inserts) ==
  (IF views_sql # <<>>
   THEN <<T_VIEWS_HEADER \o str_strip(JoinTexts(<<"\n", "\n">>, views_sql))>> ELSE <<>>)
  \o (IF ddls_sql # <<>>
      THEN <<T_TABLES_HEADER \o str_strip(JoinTexts(<<"\n", "\n">>, ddls_sql))>>
      ELSE <<>>)
  \o (IF xref_inserts # <<>> \/ fgac_inserts # <<>>
      THEN <<T_INSERTS_HEADER \o T_BEGIN
             \o JoinTexts(<<"\n", "\n">>, StatementSetParts(xref_inserts, fgac_inserts))
             \o T_END>>
      ELSE <<>>)

\* all_sql = ('\n\n'.join(sections)).strip() + '\n'
AllSql(sections) == str_strip(JoinTexts(<<"\n", "\n">>, sections)) \o <<"\n">>

----------------------------------------------------------------------------
(* Validations: validate_views_and_alignment.  Findings are the record of
   the errors and of the warnings, each a sequence of message texts. *)

\* f"Missing required column in mapping: {r}"
MissingColumnMessage(r) == <<"M", "i", "s", "s", "i", "n", "g", " ", "r", "e", "q", "u", "i",
    "r", "e", "d", " ", "c", "o", "l", "u", "m", "n", " ", "i", "n", " ", "m", "a", "p", "p",
        "i", "n", "g", ":", " ">> \o r

\* req
RequiredColumns == <<"TargetTable", "TargetColumn", "PipelineStage">>

\* the column names the scripts read, and the text of each
ColumnNames ==
  <<"TargetTable", "TargetColumn", "PipelineStage", "IsTargetPK", "TargetDataType",
    "MessageFormat", "FieldSelector", "SourceField", "SourceTransformExpr", "ExprOverride",
    "SourcePrimaryTable", "SourcePrimaryAlias", "FilterPredicate", "JoinTable",
    "JoinCondition", "JoinType", "JoinAlias">>
ColumnTexts ==
  <<<<"T", "a", "r", "g", "e", "t", "T", "a", "b", "l", "e">>,
    <<"T", "a", "r", "g", "e", "t", "C", "o", "l", "u", "m", "n">>,
    <<"P", "i", "p", "e", "l", "i", "n", "e", "S", "t", "a", "g", "e">>,
    <<"I", "s", "T", "a", "r", "g", "e", "t", "P", "K">>,
    <<"T", "a", "r", "g", "e", "t", "D", "a", "t", "a", "T", "y", "p", "e">>,
    <<"M", "e", "s", "s", "a", "g", "e", "F", "o", "r", "m", "a", "t">>,
    <<"F", "i", "e", "l", "d", "S", "e", "l", "e", "c", "t", "o", "r">>,
    <<"S", "o", "u", "r", "c", "e", "F", "i", "e", "l", "d">>,
    <<"S", "o", "u", "r", "c", "e", "T", "r", "a", "n", "s", "f", "o", "r", "m", "E", "x",
        "p", "r">>,
    <<"E", "x", "p", "r", "O", "v", "e", "r", "r", "i", "d", "e">>,
    <<"S", "o", "u", "r", "c", "e", "P", "r", "i", "m", "a", "r", "y", "T", "a", "b", "l", "e">>,
    <<"S", "o", "u", "r", "c", "e", "P", "r", "i", "m", "a", "r", "y", "A", "l", "i", "a", "s">>,
    <<"F", "i", "l", "t", "e", "r", "P", "r", "e", "d", "i", "c", "a", "t", "e">>,
    <<"J", "o", "i", "n", "T", "a", "b", "l", "e">>,
    <<"J", "o", "i", "n", "C", "o", "n", "d", "i", "t", "i", "o", "n">>,
    <<"J", "o", "i", "n", "T", "y", "p", "e">>,
    <<"J", "o", "i", "n", "A", "l", "i", "a", "s">>>>
ColumnText(c) == ColumnTexts[CHOOSE i \in DOMAIN ColumnNames : ColumnNames[i] = c]

\* the required columns the mapping lacks, in the order of req
MissingColumns(mapping) ==
  SelectSeq(RequiredColumns, LAMBDA c : c \notin Labels(mapping))

BlankTableMessage == <<"F", "o", "u", "n", "d", " ", "r", "o", "w", " ", "w", "i", "t", "h",
    " ", "b", "l", "a", "n", "k", " ", "T", "a", "r", "g", "e", "t", "T", "a", "b", "l", "e", ".">>

\* _u(s)
str_u(s) == str_upper(str_strip(s))

\* f"[{tname}] duplicate PK marks on: {', '.join(pk_cols)}"
DuplicatePkMessage(tname, pk_cols) ==
  <<"[">> \o tname \o <<"]", " ", "d", "u", "p", "l", "i", "c", "a", "t", "e", " ", "P", "K",
      " ", "m", "a", "r", "k", "s", " ", "o", "n", ":", " ">> \o JoinTexts(<<",", " ">>, pk_cols)

\* the warning of lines 100-102
PkWarnings(tname, rows) ==
  LET marked == SelectSeq(rows, LAMBDA r : str_u(Get(r, "IsTargetPK")) = <<"Y">>
                                           /\ Get(r, "TargetColumn") # <<>>)
      pk_cols == [x \in DOMAIN marked |-> Get(marked[x], "TargetColumn")]
  IN  IF Len(pk_cols) # Cardinality(Range(pk_cols))
      THEN <<DuplicatePkMessage(tname, pk_cols)>> ELSE <<>>

MissingSourceMessage(tname) ==
  <<"[">> \o tname
  \o <<"]", " ", "m", "i", "s", "s", "i", "n", "g", " ", "S", "o", "u", "r", "c", "e", "P",
      "r", "i", "m", "a", "r", "y", "T", "a", "b", "l", "e", " ", "(", "a", "t", " ", "l",
          "e", "a", "s", "t", " ", "o", "n", "e", " ", "r", "o", "w", " ", "m", "u", "s", "t",
              " ", "s", "p", "e", "c", "i", "f", "y", " ", "i", "t", ")", ".">>

\* repr(s) of a str: between single quotes, or between double quotes when it
\* holds a single quote and no double quote; a backslash before a backslash
\* and before the quote used; \t, \n and \r written out
StrRepr(s) ==
  LET quote == IF (\E x \in DOMAIN s : s[x] = "'") /\ ~(\E x \in DOMAIN s : s[x] = "\"")
               THEN "\"" ELSE "'"
  IN  <<quote>>
      \o Flatten([x \in DOMAIN s |->
                    IF s[x] = "\\" \/ s[x] = quote THEN <<"\\", s[x]>>
                    ELSE IF s[x] = "\t" THEN <<"\\", "t">>
                    ELSE IF s[x] = "\n" THEN <<"\\", "n">>
                    ELSE IF s[x] = "\r" THEN <<"\\", "r">>
                    ELSE <<s[x]>>])
      \o <<quote>>

\* f"{list(...)}": repr of a list of str
ListRepr(ts) ==
  <<"[">> \o JoinTexts(<<",", " ">>, [x \in DOMAIN ts |-> StrRepr(ts[x])]) \o <<"]">>

MultipleSourcesMessage(tname, spts) ==
  <<"[">> \o tname \o <<"]", " ", "V", "I", "E", "W", " ", "u", "s", "e", "s", " ", "m", "u",
      "l", "t", "i", "p", "l", "e", " ", "S", "o", "u", "r", "c", "e", "P", "r", "i", "m",
          "a", "r", "y", "T", "a", "b", "l", "e", " ", "v", "a", "l", "u", "e", "s", ":", " ">>
  \o ListRepr(spts)

\* spts of lines 104-108
SourceTables(rows) ==
  SelectSeq([x \in DOMAIN rows |-> Get(rows[x], "SourcePrimaryTable")], NonBlank)

RowLabel(tname, i) == <<"[">> \o tname \o <<"]", " ", "r", "o", "w", "#">> \o int_str(i)

\* the errors of lines 112-126 for row i of a VIEW
ViewRowErrors(tname, i, r) ==
  LET mf == str_u(Get(r, "MessageFormat"))
      ov == str_strip(Get(r, "ExprOverride"))
      st == str_strip(Get(r, "SourceTransformExpr"))
      sf == str_strip(Get(r, "SourceField"))
      fsel == str_strip(Get(r, "FieldSelector"))
      key == OrElse(sf, fsel)
  IN  (IF mf # <<>> /\ mf \notin {T_JSON, T_CSV}
       THEN <<RowLabel(tname, i) \o <<" ", "i", "n", "v", "a", "l", "i", "d", " ", "M", "e",
           "s", "s", "a", "g", "e", "F", "o", "r", "m", "a", "t", ":", " ">> \o mf>> ELSE <<>>)
      \o (IF mf = T_JSON /\ ov = <<>> /\ st = <<>> /\ key = <<>>
          THEN <<RowLabel(tname, i)
                 \o <<" ", "J", "S", "O", "N", " ", "V", "i", "e", "w", " ", "m", "i", "s",
                     "s", "i", "n", "g", " ", "k", "e", "y", " ", "(", "S", "o", "u", "r",
                         "c", "e", "F", "i", "e", "l", "d", " ", "o", "r", " ", "F", "i", "e",
                             "l", "d", "S", "e", "l", "e", "c", "t", "o", "r", ")", ".">>>>
          ELSE <<>>)
      \o (IF mf = T_JSON /\ MatchesAt(key, 1, <<"$">>)
          THEN <<RowLabel(tname, i) \o <<" ", "J", "S", "O", "N", " ", "k", "e", "y", " ",
              "m", "u", "s", "t", " ", "n", "o", "t", " ", "s", "t", "a", "r", "t", " ", "w",
                  "i", "t", "h", " ", "'", "$", "'", ".">>>>
          ELSE <<>>)
      \o (IF mf = T_CSV /\ ov = <<>> /\ st = <<>> /\ fsel # <<>> /\ ~IsInt(fsel)
          THEN <<RowLabel(tname, i)
                 \o <<" ", "C", "S", "V", " ", "F", "i", "e", "l", "d", "S", "e", "l", "e",
                     "c", "t", "o", "r", " ", "m", "u", "s", "t", " ", "b", "e", " ", "n",
                         "u", "m", "e", "r", "i", "c", " ", "w", "h", "e", "n", " ", "p", "r",
                             "o", "v", "i", "d", "e", "d", ".", " ", "G", "o", "t", ":",
                                 " ">> \o fsel>>
          ELSE <<>>)

FilterShapeMessage(tname) ==
  <<"[">> \o tname
  \o <<"]", " ", "F", "i", "l", "t", "e", "r", "P", "r", "e", "d", "i", "c", "a", "t", "e",
      " ", "s", "h", "o", "u", "l", "d", " ", "b", "e", " ", "c", "o", "n", "d", "i", "t",
          "i", "o", "n", " ", "o", "n", "l", "y", ";", " ", "d", "r", "o", "p", " ", "l", "e",
              "a", "d", "i", "n", "g", " ", "W", "H", "E", "R", "E", "/", "A", "N", "D", "/",
                  "O", "R", ".">>

\* fps of line 128: the filters of the rows flagged Y
PkFilters(rows) ==
  SelectSeq([x \in DOMAIN rows |->
               IF str_u(Get(rows[x], "IsTargetPK")) = <<"Y">>
               THEN str_strip(Get(rows[x], "FilterPredicate")) ELSE <<>>],
            NonBlank)

\* the warnings of lines 127-132 for a VIEW
ViewFilterWarnings(tname, rows) ==
  IF PkFilters(rows) # <<>> /\ LeadingKeywordLen(PkFilters(rows)[1]) > 0
  THEN <<FilterShapeMessage(tname)>> ELSE <<>>

JoinConditionMissingMessage(tname) ==
  <<"[">> \o tname \o <<"]", " ", "J", "o", "i", "n", "T", "a", "b", "l", "e", " ", "s", "p",
      "e", "c", "i", "f", "i", "e", "d", " ", "b", "u", "t", " ", "J", "o", "i", "n", "C",
          "o", "n", "d", "i", "t", "i", "o", "n", " ", "m", "i", "s", "s", "i", "n", "g", ".">>
JoinTableMissingMessage(tname) ==
  <<"[">> \o tname \o <<"]", " ", "J", "o", "i", "n", "C", "o", "n", "d", "i", "t", "i", "o",
      "n", " ", "p", "r", "o", "v", "i", "d", "e", "d", " ", "b", "u", "t", " ", "J", "o",
          "i", "n", "T", "a", "b", "l", "e", " ", "e", "m", "p", "t", "y", ".">>

\* jt_vals and jc_vals are not empty
HasJoinTable(rows) == \E x \in DOMAIN rows : str_strip(Get(rows[x], "JoinTable")) # <<>>
HasJoinCondition(rows) ==
  \E x \in DOMAIN rows : str_strip(Get(rows[x], "JoinCondition")) # <<>>

\* what the body of the group loop appends for table tname (lines 89-140)
GroupFindings(tname, rows) ==
  LET stage == str_u(Get(rows[1], "PipelineStage"))
      spts == SourceTables(rows)
      view_rows == [x \in DOMAIN rows |-> ViewRowErrors(tname, x, rows[x])]
  IN  [errors |->
         ColumnErrors(tname, rows)
         \o (IF spts = <<>> THEN <<MissingSourceMessage(tname)>> ELSE <<>>)
         \o (IF stage = T_VIEW THEN Flatten(view_rows)
             ELSE IF HasJoinCondition(rows) /\ ~HasJoinTable(rows)
             THEN <<JoinTableMissingMessage(tname)>> ELSE <<>>),
       warnings |->
         PkWarnings(tname, rows)
         \o (IF spts # <<>> /\ stage = T_VIEW /\ Len(uniq(spts)) > 1
             THEN <<MultipleSourcesMessage(tname, uniq(spts))>> ELSE <<>>)
         \o (IF stage = T_VIEW THEN ViewFilterWarnings(tname, rows)
             ELSE IF HasJoinTable(rows) /\ ~HasJoinCondition(rows)
             THEN <<JoinConditionMissingMessage(tname)>> ELSE <<>>)]

\* df.groupby("TargetTable"): the TargetTable values in sorted order
GroupKeys(rows) == SortTexts({Get(rows[x], "TargetTable") : x \in DOMAIN rows})

\* tdf: the rows of one group, in file order
GroupOf(rows, tname) == SelectSeq(rows, LAMBDA r : Get(r, "TargetTable") = tname)

\* df.groupby("TargetTable") raises ValueError: the label TargetTable stands
\* over several columns and the grouper is not 1-dimensional
GroupByRaises(df) == Len(ColumnsLabelled(df, "TargetTable")) > 1

\* validate_views_and_alignment(mapping_df) of a build in which norm_cols
\* returns: the findings, or raised when the call ends in an exception
validate_views_and_alignment(mapping_df) ==
  LET df == norm_cols(mapping_df)
      rows == RowDicts(df)
      keys == GroupKeys(rows)
      found == [x \in DOMAIN keys |->
                  IF str_strip(keys[x]) = <<>>
                  THEN [errors |-> <<BlankTableMessage>>, warnings |-> <<>>]
                  ELSE GroupFindings(keys[x], GroupOf(rows, keys[x]))]
  IN  IF MissingColumns(df) # <<>>
      THEN [raised |-> FALSE,
            errors |-> <<MissingColumnMessage(ColumnText(MissingColumns(df)[1]))>>,
            warnings |-> <<>>]
      ELSE IF GroupByRaises(df)
      THEN [raised |-> TRUE, errors |-> <<>>, warnings |-> <<>>]
      ELSE [raised |-> FALSE,
            errors |-> Flatten([x \in DOMAIN found |-> found[x].errors]),
            warnings |-> Flatten([x \in DOMAIN found |-> found[x].warnings])]

----------------------------------------------------------------------------
(* Bounded inputs: a text is a concatenation of a bounded number of pieces *)

MaxSanPieces == 4
MaxRwPieces == 3
MaxAllocRows == 3
MaxDupRows == 3
MaxMatrixRows == 2
MaxGenRows == 2
MaxFilterRows == 3
MaxJoinRows == 2
MaxOrderRows == 3
MaxFrameRows == 2
MaxTwiceRows == 2
MaxStageRows == 2

RECURSIVE PieceTexts(_, _)
\* the texts made of at most n pieces of the set P
PieceTexts(P, n) ==
  IF n = 0 THEN {<<>>}
  ELSE LET shorter == PieceTexts(P, n - 1)
       IN  shorter \cup {t \o p : t \in shorter, p \in P}

SanPieces == {T_WHERE, <<"a", "n", "d">>, <<"O", "r">>, <<" ">>, <<";">>, <<"x">>}

RwPieces == {<<"A">>, <<"_">>, <<"1">>, <<"'">>, <<"\"">>, <<" ">>, <<"x">>,
             <<"A", "_", "B">>, <<"L", "I", "K", "E">>,
             <<"J", "s", "o", "n", "_", "V", "a", "l", "u", "e">>}

PayloadCols == {<<"v", "a", "l">>, <<"P", "_", "C", "O", "L">>}

----------------------------------------------------------------------------
(* Idle values of each component's variables *)

SanIdle ==
  /\ san_raw = <<>> /\ san_once = <<>> /\ san_twice = <<>> /\ san_pc = "idle"

RwIdle ==
  /\ rw_fp = <<>> /\ rw_payload_col = <<>> /\ rw_i = 1
  /\ rw_in_s = FALSE /\ rw_in_d = FALSE /\ rw_out = <<>>
  /\ rw_result = <<>> /\ rw_first = <<>> /\ rw_pass = 1 /\ rw_pc = "idle"

ExIdle ==
  /\ ex_row = <<>> /\ ex_is_view = FALSE /\ ex_auto_idx = <<>>
  /\ ex_expr = <<>> /\ ex_pc = "idle"

AlIdle ==
  /\ al_rows = <<>> /\ al_is_view = FALSE /\ al_reserved = {} /\ al_cursor = 0
  /\ al_auto_idx = <<>> /\ al_assigned = <<>> /\ al_exprs = <<>> /\ al_k = 1
  /\ al_pc = "idle"

DdIdle ==
  /\ dd_mapping = <<>> /\ dd_props = <<>> /\ dd_errors = <<>> /\ dd_rows = <<>>
  /\ dd_cols_seen = {} /\ dd_col_lines = <<>> /\ dd_pk_cols = <<>>
  /\ dd_ddl = <<>> /\ dd_k = 1 /\ dd_pc = "idle"

NoFindings == [raised |-> FALSE, errors |-> <<>>, warnings |-> <<>>]
NoProps == [raised |-> FALSE, props |-> <<>>]

MxIdle ==
  /\ mx_tables = {} /\ mx_unit = <<>> /\ mx_matrix = NoMatrix
  /\ mx_findings = NoFindings /\ mx_validated = FALSE
  /\ mx_props = NoProps /\ mx_resolved = FALSE

NoMapping == [columns |-> <<>>, index |-> <<>>, rows |-> <<>>]
NoIssues == [errors |-> <<>>, warnings |-> <<>>]

GnIdle ==
  /\ gn_pandas = "2.1"
  /\ gn_mapping = NoMapping /\ gn_matrix = NoMatrix /\ gn_issues = NoIssues
  /\ gn_grouped = <<>> /\ gn_views_sql = <<>> /\ gn_ddls_sql = <<>>
  /\ gn_xref_inserts = <<>> /\ gn_fgac_inserts = <<>> /\ gn_all_sql = <<>>
  /\ gn_raised = FALSE /\ gn_u = 0 /\ gn_pc = "idle"

FrIdle ==
  /\ fr_units = <<>> /\ fr_run = 0 /\ fr_u = 0
  /\ fr_reserved = {} /\ fr_cursor = 0 /\ fr_auto_idx = <<>>
  /\ fr_indices = <<>> /\ fr_pc = "idle"

NoReturn == [issues |-> NoIssues, all_sql |-> <<>>, raised |-> FALSE]

TwIdle == tw_book = NoMapping /\ tw_run = 0 /\ tw_first = NoReturn

----------------------------------------------------------------------------
(* SpecSanitize: sanitize_predicate applied once, then to its own result *)

SanInit ==
  /\ san_raw \in PieceTexts(SanPieces, MaxSanPieces)
  /\ san_once = <<>>
  /\ san_twice = <<>>
  /\ san_pc = "init"
  /\ RwIdle /\ ExIdle /\ AlIdle /\ DdIdle /\ MxIdle /\ GnIdle /\ FrIdle /\ TwIdle

SanitizeOnce ==
  /\ san_pc = "init"
  /\ san_once' = sanitize_predicate(san_raw)
  /\ san_pc' = "once"
  /\ UNCHANGED <<san_raw, san_twice, notSan>>

SanitizeTwice ==
  /\ san_pc = "once"
  /\ san_twice' = sanitize_predicate(san_once)
  /\ san_pc' = "twice"
  /\ UNCHANGED <<san_raw, san_once, notSan>>

SanNext == SanitizeOnce \/ SanitizeTwice

SpecSanitize == SanInit /\ [][SanNext]_vars

\* C4 as stated: sanitize is idempotent on every raw text.
C4_SanitizeIdempotent ==
  san_pc = "twice" => san_twice = san_once

\* C4 as amended: sanitize(sanitize(x)) = sanitize(x) for every raw text x
\* whose sanitized text neither begins with a WHERE/AND/OR keyword nor ends
\* with whitespace.
C4_SanitizeIdempotentWhenClean ==
  (/\ san_pc = "twice"
   /\ LeadingKeywordLen(san_once) = 0
   /\ (san_once = <<>> \/ ~IsSpaceCh(san_once[Len(san_once)])))
  => san_twice = san_once

\* a raw text with a leading keyword and trailing semicolons whose sanitized
\* text is clean, sanitized twice
C4_Witness ==
  /\ san_pc = "twice"
  /\ LeadingKeywordLen(san_raw) > 0
  /\ san_raw # <<>> /\ san_raw[Len(san_raw)] = ";"
  /\ san_once # <<>>
  /\ LeadingKeywordLen(san_once) = 0
  /\ ~IsSpaceCh(san_once[Len(san_once)])
  /\ san_twice = san_once

----------------------------------------------------------------------------
(* SpecRewrite: rewrite_predicate_as_json, one action per branch of its    *)
(* loop, applied to an input text and then to its own result               *)

RwInit ==
  /\ rw_fp \in PieceTexts(RwPieces, MaxRwPieces)
  /\ rw_payload_col \in PayloadCols
  /\ rw_i = 1
  /\ rw_in_s = FALSE
  /\ rw_in_d = FALSE
  /\ rw_out = <<>>
  /\ rw_result = <<>>
  /\ rw_first = <<>>
  /\ rw_pass = 1
  /\ rw_pc = "start"
  /\ SanIdle /\ ExIdle /\ AlIdle /\ DdIdle /\ MxIdle /\ GnIdle /\ FrIdle /\ TwIdle

\* if not fp or "JSON_VALUE" in fp.upper(): return fp
RwReturnUnchanged ==
  /\ rw_pc = "start"
  /\ AlreadyRewritten(rw_fp)
  /\ rw_result' = rw_fp
  /\ rw_pc' = "done"
  /\ UNCHANGED <<rw_fp, rw_payload_col, rw_i, rw_in_s, rw_in_d, rw_out,
                 rw_first, rw_pass, notRw>>

\* out = []; i, n = 0, len(fp); in_s = in_d = False
RwBegin ==
  /\ rw_pc = "start"
  /\ ~AlreadyRewritten(rw_fp)
  /\ rw_out' = <<>>
  /\ rw_i' = 1
  /\ rw_in_s' = FALSE
  /\ rw_in_d' = FALSE
  /\ rw_pc' = "scan"
  /\ UNCHANGED <<rw_fp, rw_payload_col, rw_result, rw_first, rw_pass, notRw>>

RwScanning == rw_pc = "scan" /\ rw_i <= Len(rw_fp)

\* if ch == "'" and not in_d
RwSingleQuote ==
  /\ RwScanning
  /\ rw_fp[rw_i] = "'" /\ ~rw_in_d
  /\ rw_out' = Append(rw_out, <<rw_fp[rw_i]>>)
  /\ rw_i' = rw_i + 1
  /\ rw_in_s' = ~rw_in_s
  /\ UNCHANGED <<rw_fp, rw_payload_col, rw_in_d, rw_result, rw_first, rw_pass,
                 rw_pc, notRw>>

\* if ch == '"' and not in_s
RwDoubleQuote ==
  /\ RwScanning
  /\ ~(rw_fp[rw_i] = "'" /\ ~rw_in_d)
  /\ rw_fp[rw_i] = "\"" /\ ~rw_in_s
  /\ rw_out' = Append(rw_out, <<rw_fp[rw_i]>>)
  /\ rw_i' = rw_i + 1
  /\ rw_in_d' = ~rw_in_d
  /\ UNCHANGED <<rw_fp, rw_payload_col, rw_in_s, rw_result, rw_first, rw_pass,
                 rw_pc, notRw>>

RwNoQuote ==
  /\ ~(rw_fp[rw_i] = "'" /\ ~rw_in_d)
  /\ ~(rw_fp[rw_i] = "\"" /\ ~rw_in_s)

\* if in_s or in_d
RwLiteral ==
  /\ RwScanning
  /\ RwNoQuote
  /\ InLiteral(rw_in_s, rw_in_d)
  /\ rw_out' = Append(rw_out, <<rw_fp[rw_i]>>)
  /\ rw_i' = rw_i + 1
  /\ UNCHANGED <<rw_fp, rw_payload_col, rw_in_s, rw_in_d, rw_result, rw_first,
                 rw_pass, rw_pc, notRw>>

\* m = _JSON_FIELD_TOKEN.match(fp, i); if m: ...
RwToken ==
  /\ RwScanning
  /\ RwNoQuote
  /\ ~InLiteral(rw_in_s, rw_in_d)
  /\ JSON_FIELD_TOKEN_match(rw_fp, rw_i) > 0
  /\ LET e == JSON_FIELD_TOKEN_match(rw_fp, rw_i)
     IN  /\ rw_out' = Append(rw_out,
                        rewrite_token(SubSeq(rw_fp, rw_i, e), rw_payload_col))
         /\ rw_i' = e + 1
  /\ UNCHANGED <<rw_fp, rw_payload_col, rw_in_s, rw_in_d, rw_result, rw_first,
                 rw_pass, rw_pc, notRw>>

\* else: out.append(ch); i += 1
RwOther ==
  /\ RwScanning
  /\ RwNoQuote
  /\ ~InLiteral(rw_in_s, rw_in_d)
  /\ JSON_FIELD_TOKEN_match(rw_fp, rw_i) = 0
  /\ rw_out' = Append(rw_out, <<rw_fp[rw_i]>>)
  /\ rw_i' = rw_i + 1
  /\ UNCHANGED <<rw_fp, rw_payload_col, rw_in_s, rw_in_d, rw_result, rw_first,
                 rw_pass, rw_pc, notRw>>

\* return "".join(out)
RwReturnJoined ==
  /\ rw_pc = "scan"
  /\ rw_i > Len(rw_fp)
  /\ rw_result' = Flatten(rw_out)
  /\ rw_pc' = "done"
  /\ UNCHANGED <<rw_fp, rw_payload_col, rw_i, rw_in_s, rw_in_d, rw_out,
                 rw_first, rw_pass, notRw>>

\* the returned text is rewritten again with the same payload column
RwApplyAgain ==
  /\ rw_pc = "done"
  /\ rw_pass = 1
  /\ rw_first' = rw_result
  /\ rw_fp' = rw_result
  /\ rw_pass' = 2
  /\ rw_pc' = "start"
  /\ UNCHANGED <<rw_payload_col, rw_i, rw_in_s, rw_in_d, rw_out, rw_result,
                 notRw>>

RwNext ==
  \/ RwReturnUnchanged
  \/ RwBegin
  \/ RwSingleQuote
  \/ RwDoubleQuote
  \/ RwLiteral
  \/ RwToken
  \/ RwOther
  \/ RwReturnJoined
  \/ RwApplyAgain

SpecRewrite == RwInit /\ [][RwNext]_vars

----------------------------------------------------------------------------
(* What the claims say of rewrite_predicate_as_json, stated on the text    *)
(* alone: literal spans by quote parity, tokens as maximal runs of word    *)
(* characters                                                              *)

RECURSIVE QuoteStateAfter(_, _)
\* the literal span that is open after the first n characters of t:
\* "none", "single" or "double"
QuoteStateAfter(t, n) ==
  IF n = 0 THEN "none"
  ELSE LET q == QuoteStateAfter(t, n - 1)
       IN  IF q = "none"
           THEN (IF t[n] = "'" THEN "single"
                 ELSE IF t[n] = "\"" THEN "double" ELSE "none")
           ELSE IF q = "single"
           THEN (IF t[n] = "'" THEN "none" ELSE "single")
           ELSE (IF t[n] = "\"" THEN "none" ELSE "double")

\* the character at x lies in a literal span (its closing quote included)
InsideLiteral(t, x) == QuoteStateAfter(t, x - 1) # "none"

\* the first and the last index of the run of word characters that holds x
WordRunStart(t, x) ==
  SetMax({y \in 1..x : IsWordCh(t[y]) /\ (y = 1 \/ ~IsWordCh(t[y - 1]))})
WordRunEnd(t, x) ==
  SetMin({y \in x..Len(t) : IsWordCh(t[y]) /\ (y = Len(t) \/ ~IsWordCh(t[y + 1]))})

\* starts with an uppercase letter, only uppercase letters, digits, underscores
IdentifierLike(tok) ==
  /\ tok # <<>>
  /\ IsUpperCh(tok[1])
  /\ \A x \in DOMAIN tok : IsFieldCh(tok[x])

\* the text in which every token outside a literal span that Rewritten
\* accepts is replaced by the JSON lookup keyed by it
ReplaceTokens(t, c, Rewritten(_)) ==
  LET piece(x) ==
        IF ~IsWordCh(t[x]) \/ InsideLiteral(t, x) THEN <<t[x]>>
        ELSE LET s == WordRunStart(t, x)
                 tok == SubSeq(t, s, WordRunEnd(t, x))
             IN  IF ~Rewritten(tok) THEN <<t[x]>>
                 ELSE IF x = s THEN JsonValue(c, tok) ELSE <<>>
  IN  Flatten([x \in DOMAIN t |-> piece(x)])

HasLookupName(t) == Contains(str_upper(t), T_JSON_VALUE)

\* C6 as stated: identifier-like, not reserved, not a pure digit sequence
ClaimedToken(tok) ==
  IdentifierLike(tok) /\ tok \notin SQL_RESERVED /\ ~str_isdigit(tok)

\* C6 as amended: moreover at least two characters, the last one an uppercase
\* letter or a digit, and neither short (at most three characters) nor
\* without an underscore at once
AmendedToken(tok) ==
  /\ ClaimedToken(tok)
  /\ Len(tok) >= 2
  /\ (IsUpperCh(tok[Len(tok)]) \/ IsDigitCh(tok[Len(tok)]))
  /\ ("_" \in Range(tok) \/ Len(tok) > 3)

\* C5: rewriteAsJson copies every character of a single- or double-quoted
\* literal span unchanged (each step that reads a character inside a span
\* appends exactly that character), and a text with no identifier-like token
\* outside its literal spans is returned unchanged.
C5_LiteralsUntouched ==
  /\ [][(rw_pc = "scan" /\ rw_i <= Len(rw_fp) /\ InsideLiteral(rw_fp, rw_i))
          => (rw_out' = Append(rw_out, <<rw_fp[rw_i]>>) /\ rw_i' = rw_i + 1)]_vars
  /\ [](( /\ rw_pc = "done"
          /\ \A x \in DOMAIN rw_fp :
                (IsWordCh(rw_fp[x]) /\ ~InsideLiteral(rw_fp, x))
                => ~IdentifierLike(SubSeq(rw_fp, WordRunStart(rw_fp, x),
                                          WordRunEnd(rw_fp, x))))
        => rw_result = rw_fp)

\* the text A_B'A_B: the first A_B is rewritten, the one in the literal kept
C5_Witness ==
  /\ rw_pc = "done"
  /\ rw_pass = 1
  /\ rw_fp = <<"A", "_", "B", "'", "A", "_", "B">>
  /\ rw_result = JsonValue(rw_payload_col, <<"A", "_", "B">>) \o <<"'", "A", "_", "B">>

\* C6 as stated: every identifier-like token outside a literal is replaced by
\* the JSON lookup unless it is reserved or a pure digit sequence (or the
\* text already holds the lookup function name).
C6_EveryTokenRewritten ==
  rw_pc = "done" =>
    rw_result = IF HasLookupName(rw_fp) THEN rw_fp
                ELSE ReplaceTokens(rw_fp, rw_payload_col, ClaimedToken)

\* C6 as amended: the tokens replaced are the identifier-like ones of at
\* least two characters that end with an uppercase letter or a digit, are
\* not reserved, and hold an underscore or more than three characters
\* (unless the text holds JSON_VALUE in any letter case).
C6_LongTokensRewritten ==
  rw_pc = "done" =>
    rw_result = IF HasLookupName(rw_fp) THEN rw_fp
                ELSE ReplaceTokens(rw_fp, rw_payload_col, AmendedToken)

\* in A_B LIKE the token A_B is rewritten and the reserved word LIKE is kept
C6_Witness ==
  /\ rw_pc = "done"
  /\ rw_pass = 1
  /\ rw_fp = <<"A", "_", "B", " ", "L", "I", "K", "E">>
  /\ rw_result = JsonValue(rw_payload_col, <<"A", "_", "B">>)
                   \o <<" ", "L", "I", "K", "E">>

\* C7: rewriteAsJson applied to its own result returns that result, and a
\* text that holds the lookup function name JSON_VALUE is returned unchanged.
C7_RewriteIdempotent ==
  /\ (rw_pc = "done" /\ rw_pass = 2) => rw_result = rw_first
  /\ (rw_pc = "done" /\ Contains(rw_fp, T_JSON_VALUE)) => rw_result = rw_fp

\* a first application that rewrote a token, applied again
C7_Witness ==
  /\ rw_pc = "done"
  /\ rw_pass = 2
  /\ Contains(rw_first, JsonValue(rw_payload_col, <<"A", "_", "B">>))
  /\ rw_result = rw_first

----------------------------------------------------------------------------
(* SpecExpr: choose_expr on one row, as a view row or as a non-view row *)

ExRows ==
  [ExprOverride : {<<>>, <<"f", "(", "a", ")">>, <<"C", "A", "S", "T", "(", "a", ")">>,
                   <<"c", "a", "s", "t", " ", "(", "a", ")">>},
   SourceTransformExpr : {<<>>, <<"g", "(", "b", ")">>, <<"C", "a", "s", "t", "(", "b", ")">>},
   TargetDataType : {<<>>, <<"I", "N", "T">>, <<"s", "t", "r", "i", "n", "g">>},
   MessageFormat : {<<>>, <<"J", "S", "O", "N">>, <<"c", "s", "v">>, <<"X", "M", "L">>},
   SourceField : {<<>>, <<"s", "r", "c">>},
   FieldSelector : {<<>>, <<"2">>, <<"0", "7">>, <<"k">>},
   TargetColumn : {<<>>, <<"c", "o", "l">>}]

ExAutoIndexes == {<<>>, [c \in {<<"c", "o", "l">>} |-> 3]}

ExInit ==
  /\ ex_row \in ExRows
  /\ ex_is_view \in BOOLEAN
  /\ ex_auto_idx \in ExAutoIndexes
  /\ ex_expr = <<>>
  /\ ex_pc = "init"
  /\ SanIdle /\ RwIdle /\ AlIdle /\ DdIdle /\ MxIdle /\ GnIdle /\ FrIdle /\ TwIdle

ChooseExprView ==
  /\ ex_pc = "init"
  /\ ex_is_view
  /\ ex_expr' = choose_expr(ex_row, TRUE, raw_payload_col, csv_delim, ex_auto_idx)
  /\ ex_pc' = "done"
  /\ UNCHANGED <<ex_row, ex_is_view, ex_auto_idx, notEx>>

ChooseExprNonView ==
  /\ ex_pc = "init"
  /\ ~ex_is_view
  /\ ex_expr' = choose_expr(ex_row, FALSE, raw_payload_col, csv_delim, ex_auto_idx)
  /\ ex_pc' = "done"
  /\ UNCHANGED <<ex_row, ex_is_view, ex_auto_idx, notEx>>

ExNext == ChooseExprView \/ ChooseExprNonView

SpecExpr == ExInit /\ [][ExNext]_vars

\* the texts the claims speak of: the row's fields without surrounding
\* whitespace, and its TargetDataType with the generic text type as default
ExOverride == str_strip(ex_row.ExprOverride)
ExTransform == str_strip(ex_row.SourceTransformExpr)
ExSourceField == str_strip(ex_row.SourceField)
ExTargetColumn == str_strip(ex_row.TargetColumn)
ExType == IF str_strip(ex_row.TargetDataType) = <<>> THEN T_STRING
          ELSE str_strip(ex_row.TargetDataType)
\* the override if there is one, else the transform
ExExplicit == IF ExOverride # <<>> THEN ExOverride ELSE ExTransform

\* text e is text inner wrapped as CAST(inner AS type)
IsCastOf(e, inner, type) ==
  e = <<"C", "A", "S", "T", "(">> \o inner \o <<" ", "A", "S", " ">> \o type \o <<")">>

\* text e begins (in any letter case) with CAST, optional blanks and "("
BeginsWithCast(e) ==
  \E n \in 5..Len(e) :
     /\ str_upper(SubSeq(e, 1, 4)) = <<"C", "A", "S", "T">>
     /\ \A x \in 5..(n - 1) : IsSpaceCh(e[x])
     /\ e[n] = "("

\* the extraction function a view row's MessageFormat asks for appears in
\* the expression, applied to the row's key or source
ExAutoShape ==
  LET mf == str_upper(ex_row.MessageFormat)
      lookup == <<"J", "S", "O", "N", "_", "V", "A", "L", "U", "E", "(">>
      split == <<"S", "P", "L", "I", "T", "_", "I", "N", "D", "E", "X", "(">>
  IN  /\ MatchesAt(ex_expr, 1, <<"C", "A", "S", "T", "(">>)
      /\ Contains(ex_expr, <<"T", "R", "I", "M", "(">>)
      /\ MatchesAt(ex_expr, Len(ex_expr) - Len(ExType) - 4,
                   <<" ", "A", "S", " ">> \o ExType \o <<")">>)
      /\ (mf = T_JSON) <=> Contains(ex_expr, lookup)
      /\ (mf = T_CSV) <=> Contains(ex_expr, split)
      /\ (mf \notin {T_JSON, T_CSV}) =>
            Contains(ex_expr, <<"T", "R", "I", "M", "(">>
                       \o OrElse(ExSourceField, raw_payload_col) \o <<")">>)

\* C8: for view and non-view rows alike the expression comes from
\* ExprOverride when it is non-empty, else from SourceTransformExpr when it
\* is non-empty, and only else from the stage fallback: an auto extraction
\* for a view; SourceField, else TargetColumn, else NULL for a non-view.
C8_ExprPrecedence ==
  ex_pc = "done" =>
    IF ExOverride # <<>>
    THEN ex_expr = ExOverride \/ IsCastOf(ex_expr, ExOverride, ExType)
    ELSE IF ExTransform # <<>>
    THEN ex_expr = ExTransform \/ IsCastOf(ex_expr, ExTransform, ExType)
    ELSE IF ex_is_view THEN ExAutoShape
    ELSE ex_expr = (IF ExSourceField # <<>> THEN ExSourceField
                    ELSE IF ExTargetColumn # <<>> THEN ExTargetColumn
                    ELSE T_NULL)

\* a row that carries an override, a transform and a source field at once
C8_Witness ==
  /\ ex_pc = "done"
  /\ ExOverride # <<>> /\ ExTransform # <<>> /\ ExSourceField # <<>>
  /\ ExOverride # ExTransform
  /\ ex_expr = ExOverride

\* C9: a view-stage override or transform is emitted unchanged when it
\* already begins with an explicit CAST( and is otherwise wrapped exactly
\* once as CAST(<text> AS <TargetDataType>); a non-view expression is one of
\* the row's own texts (or NULL), never wrapped in a cast.
C9_CastOnce ==
  ex_pc = "done" =>
    /\ (ex_is_view /\ ExExplicit # <<>>) =>
          IF BeginsWithCast(ExExplicit) THEN ex_expr = ExExplicit
          ELSE IsCastOf(ex_expr, ExExplicit, ExType)
    /\ ~ex_is_view =>
          ex_expr \in {ExOverride, ExTransform, ExSourceField, ExTargetColumn, T_NULL}

\* a view row whose override is already a cast, emitted as it is
C9_Witness ==
  /\ ex_pc = "done"
  /\ ex_is_view
  /\ BeginsWithCast(ExOverride)
  /\ ex_row.TargetDataType = <<"I", "N", "T">>
  /\ ex_expr = ExOverride


\* what the claim speaks of: a view row in JSON format with no override, no
\* transform, no SourceField and no FieldSelector
ExJsonFallback ==
  /\ ex_is_view
  /\ str_upper(ex_row.MessageFormat) = T_JSON
  /\ ExOverride = <<>> /\ ExTransform = <<>>
  /\ ExSourceField = <<>> /\ str_strip(ex_row.FieldSelector) = <<>>

\* C21: the expression of such a row is a cast around a JSON lookup on the
\* payload column, keyed by the row's TargetColumn
C21_JsonFallbackKeyedByTargetColumn ==
  (ex_pc = "done" /\ ExJsonFallback) =>
    /\ MatchesAt(ex_expr, 1, <<"C", "A", "S", "T", "(">>)
    /\ Contains(ex_expr, JsonValue(raw_payload_col, ExTargetColumn))

\* the same, for the rows that do name a SourceField or a FieldSelector: the
\* lookup is keyed by the SourceField, else by the FieldSelector
C21_JsonKeyedBySourceOrSelector ==
  (ex_pc = "done" /\ ex_is_view /\ str_upper(ex_row.MessageFormat) = T_JSON
     /\ ExOverride = <<>> /\ ExTransform = <<>>) =>
    /\ MatchesAt(ex_expr, 1, <<"C", "A", "S", "T", "(">>)
    /\ Contains(ex_expr, JsonValue(raw_payload_col,
                  OrElse(ExSourceField, str_strip(ex_row.FieldSelector))))
----------------------------------------------------------------------------
(* SpecAlloc: generate, for one unit, from the stage test to the rows'
   expressions: the two loops of the CSV index allocator and the loop that
   stores each row's __expr__ *)

AlColumns == {<<"a">>, <<"b">>, <<"c">>}

\* what a row says of its extraction: an unselected CSV row, CSV rows with
\* FieldSelector 0 and 2, a JSON row, CSV rows with an override or a transform
AlKinds ==
  {[MessageFormat |-> T_CSV, FieldSelector |-> <<>>, ExprOverride |-> <<>>,
    SourceTransformExpr |-> <<>>],
   [MessageFormat |-> T_CSV, FieldSelector |-> <<"0">>, ExprOverride |-> <<>>,
    SourceTransformExpr |-> <<>>],
   [MessageFormat |-> T_CSV, FieldSelector |-> <<"2">>, ExprOverride |-> <<>>,
    SourceTransformExpr |-> <<>>],
   [MessageFormat |-> T_JSON, FieldSelector |-> <<"k">>, ExprOverride |-> <<>>,
    SourceTransformExpr |-> <<>>],
   [MessageFormat |-> T_CSV, FieldSelector |-> <<>>, ExprOverride |-> <<"f">>,
    SourceTransformExpr |-> <<>>],
   [MessageFormat |-> T_CSV, FieldSelector |-> <<"0">>, ExprOverride |-> <<>>,
    SourceTransformExpr |-> <<"g">>]}

AlRow(stage, col, kind) ==
  [PipelineStage |-> stage, TargetTable |-> <<"T">>, TargetColumn |-> col,
   MessageFormat |-> kind.MessageFormat, FieldSelector |-> kind.FieldSelector,
   ExprOverride |-> kind.ExprOverride,
   SourceTransformExpr |-> kind.SourceTransformExpr]

\* the units of one stage, of 1..MaxAllocRows rows, in the order the sort of
\* the mapping leaves them in
AlUnits ==
  UNION {
    {[x \in 1..n |-> AlRow(stage, cols[x], kinds[x])] :
       cols \in {cs \in [1..n -> AlColumns] :
                   \A x \in 1..(n - 1) : TextLeq(cs[x], cs[x + 1])},
       kinds \in [1..n -> AlKinds]} :
    n \in 1..MaxAllocRows, stage \in {T_VIEW, T_FGAC}}

AlInit ==
  /\ al_rows \in AlUnits
  /\ IsSortedRows(al_rows)
  /\ al_is_view = FALSE
  /\ al_reserved = {}
  /\ al_cursor = 0
  /\ al_auto_idx = <<>>
  /\ al_assigned = <<>>
  /\ al_exprs = <<>>
  /\ al_k = 1
  /\ al_pc = "stage"
  /\ SanIdle /\ RwIdle /\ ExIdle /\ DdIdle /\ MxIdle /\ GnIdle /\ FrIdle /\ TwIdle

AlFieldSelector(r) == str_strip(Get(r, "FieldSelector"))

\* stage, is_view; auto_idx = {}; reserved = set() when it is a view
AlStage ==
  /\ al_pc = "stage"
  /\ al_is_view' = (UnitStage(al_rows) = T_VIEW)
  /\ al_pc' = IF al_is_view' THEN "reserve" ELSE "expr"
  /\ UNCHANGED <<al_rows, al_reserved, al_cursor, al_auto_idx, al_assigned,
                 al_exprs, al_k, notAl>>

\* first loop: a row the allocator has nothing to do with
AlReserveSkip ==
  /\ al_pc = "reserve" /\ al_k <= Len(al_rows)
  /\ AllocSkips(al_rows[al_k])
  /\ al_k' = al_k + 1
  /\ UNCHANGED <<al_rows, al_is_view, al_reserved, al_cursor, al_auto_idx,
                 al_assigned, al_exprs, al_pc, notAl>>

\* first loop: reserved.add(int(fsel))
AlReserveExplicit ==
  /\ al_pc = "reserve" /\ al_k <= Len(al_rows)
  /\ ~AllocSkips(al_rows[al_k])
  /\ IsInt(AlFieldSelector(al_rows[al_k]))
  /\ al_reserved' = al_reserved \cup {str_int(AlFieldSelector(al_rows[al_k]))}
  /\ al_k' = al_k + 1
  /\ UNCHANGED <<al_rows, al_is_view, al_cursor, al_auto_idx, al_assigned,
                 al_exprs, al_pc, notAl>>

\* first loop: a CSV row without a numeric FieldSelector reserves nothing
AlReserveNone ==
  /\ al_pc = "reserve" /\ al_k <= Len(al_rows)
  /\ ~AllocSkips(al_rows[al_k])
  /\ ~IsInt(AlFieldSelector(al_rows[al_k]))
  /\ al_k' = al_k + 1
  /\ UNCHANGED <<al_rows, al_is_view, al_reserved, al_cursor, al_auto_idx,
                 al_assigned, al_exprs, al_pc, notAl>>

\* cursor = 0, and the second loop begins
AlReserveEnd ==
  /\ al_pc = "reserve" /\ al_k > Len(al_rows)
  /\ al_cursor' = 0
  /\ al_k' = 1
  /\ al_pc' = "assign"
  /\ UNCHANGED <<al_rows, al_is_view, al_reserved, al_auto_idx, al_assigned,
                 al_exprs, notAl>>

\* second loop: a row the allocator has nothing to do with
AlAssignSkip ==
  /\ al_pc = "assign" /\ al_k <= Len(al_rows)
  /\ AllocSkips(al_rows[al_k])
  /\ al_assigned' = Append(al_assigned, -1)
  /\ al_k' = al_k + 1
  /\ UNCHANGED <<al_rows, al_is_view, al_reserved, al_cursor, al_auto_idx,
                 al_exprs, al_pc, notAl>>

\* second loop: cursor = max(cursor, int(fsel) + 1)
AlAssignExplicit ==
  /\ al_pc = "assign" /\ al_k <= Len(al_rows)
  /\ ~AllocSkips(al_rows[al_k])
  /\ IsInt(AlFieldSelector(al_rows[al_k]))
  /\ al_cursor' = advance_cursor(al_cursor, str_int(AlFieldSelector(al_rows[al_k])))
  /\ al_assigned' = Append(al_assigned, -1)
  /\ al_k' = al_k + 1
  /\ UNCHANGED <<al_rows, al_is_view, al_reserved, al_auto_idx, al_exprs,
                 al_pc, notAl>>

\* second loop: idx = next_free(cursor); auto_idx[TargetColumn] = idx;
\* reserved.add(idx); cursor = idx + 1
AlAssignAuto ==
  /\ al_pc = "assign" /\ al_k <= Len(al_rows)
  /\ ~AllocSkips(al_rows[al_k])
  /\ ~IsInt(AlFieldSelector(al_rows[al_k]))
  /\ LET idx == next_free(al_cursor, al_reserved)
     IN  /\ al_auto_idx' = DictPut(al_auto_idx, Get(al_rows[al_k], "TargetColumn"), idx)
         /\ al_reserved' = al_reserved \cup {idx}
         /\ al_cursor' = idx + 1
         /\ al_assigned' = Append(al_assigned, idx)
  /\ al_k' = al_k + 1
  /\ UNCHANGED <<al_rows, al_is_view, al_exprs, al_pc, notAl>>

AlAssignEnd ==
  /\ al_pc = "assign" /\ al_k > Len(al_rows)
  /\ al_k' = 1
  /\ al_pc' = "expr"
  /\ UNCHANGED <<al_rows, al_is_view, al_reserved, al_cursor, al_auto_idx,
                 al_assigned, al_exprs, notAl>>

\* r['__expr__'] = choose_expr(r, is_view, raw_payload_col, csv_delim, auto_idx)
AlExpr ==
  /\ al_pc = "expr" /\ al_k <= Len(al_rows)
  /\ al_exprs' = Append(al_exprs, choose_expr(al_rows[al_k], al_is_view,
                                              raw_payload_col, csv_delim, al_auto_idx))
  /\ al_k' = al_k + 1
  /\ UNCHANGED <<al_rows, al_is_view, al_reserved, al_cursor, al_auto_idx,
                 al_assigned, al_pc, notAl>>

AlExprEnd ==
  /\ al_pc = "expr" /\ al_k > Len(al_rows)
  /\ al_pc' = "done"
  /\ UNCHANGED <<al_rows, al_is_view, al_reserved, al_cursor, al_auto_idx,
                 al_assigned, al_exprs, al_k, notAl>>

AlNext ==
  \/ AlStage
  \/ AlReserveSkip \/ AlReserveExplicit \/ AlReserveNone \/ AlReserveEnd
  \/ AlAssignSkip \/ AlAssignExplicit \/ AlAssignAuto \/ AlAssignEnd
  \/ AlExpr \/ AlExprEnd

SpecAlloc == AlInit /\ [][AlNext]_vars

\* what the claims speak of: the CSV-extraction rows of the unit (CSV rows
\* without override and transform), those with a numeric FieldSelector and
\* those without, and the split index a row's expression is emitted with
AlCsvExtraction(k) ==
  /\ str_upper(Get(al_rows[k], "MessageFormat")) = T_CSV
  /\ str_strip(Get(al_rows[k], "ExprOverride")) = <<>>
  /\ str_strip(Get(al_rows[k], "SourceTransformExpr")) = <<>>
AlExplicit(k) == AlCsvExtraction(k) /\ IsInt(AlFieldSelector(al_rows[k]))
AlUnselected(k) == AlCsvExtraction(k) /\ ~IsInt(AlFieldSelector(al_rows[k]))
AlExplicitIndex(k) == str_int(AlFieldSelector(al_rows[k]))
AlIndexes == 0..(Len(al_rows) + 3)
EmittedWith(k, n) ==
  Contains(al_exprs[k], <<"'", ",", " ">> \o int_str(n) \o <<")">>)
AlViewDone == al_pc = "done" /\ al_is_view

\* C1: in a view unit, no two CSV-extraction rows without a numeric
\* FieldSelector are emitted with the same split index, and none of them is
\* emitted with the numeric FieldSelector of a CSV-extraction row of the unit
C1_EmittedIndexesDistinct ==
  AlViewDone =>
    \A p \in DOMAIN al_rows : \A n \in AlIndexes :
      (AlUnselected(p) /\ EmittedWith(p, n)) =>
        \A q \in DOMAIN al_rows :
          /\ (q # p /\ AlUnselected(q)) => ~EmittedWith(q, n)
          /\ AlExplicit(q) => AlExplicitIndex(q) # n

\* the indices the claim of C2 rules out for row k: the explicit
\* FieldSelector indices of the unit and the indices of earlier rows
AlExplicitIndexes == {AlExplicitIndex(q) : q \in {x \in DOMAIN al_rows : AlExplicit(x)}}
AlEarlierAuto(k) == {al_assigned[q] : q \in {x \in 1..(k - 1) : al_assigned[x] >= 0}}
AlEarlierExplicit(k) ==
  {AlExplicitIndex(q) : q \in {x \in 1..(k - 1) : AlExplicit(x)}}

\* C2 as stated: every unselected CSV-extraction row is assigned the smallest
\* non-negative integer that is neither an explicit FieldSelector index of
\* the unit nor an index auto-assigned to an earlier row
C2_SmallestFreeIndex ==
  \A k \in DOMAIN al_assigned :
    AlUnselected(k) =>
      al_assigned[k] = SetMin(AlIndexes \ (AlExplicitIndexes \cup AlEarlierAuto(k)))

\* C2, amended: every unselected CSV-extraction row is assigned the smallest
\* non-negative integer that is above every index, explicit or auto-assigned,
\* of an earlier CSV-extraction row and is not an explicit FieldSelector index
\* of the unit
C2_SmallestIndexPastEarlierRows ==
  \A k \in DOMAIN al_assigned :
    AlUnselected(k) =>
      al_assigned[k] =
        SetMin({n \in AlIndexes \ AlExplicitIndexes :
                  \A e \in AlEarlierAuto(k) \cup AlEarlierExplicit(k) : n > e})

\* an unselected row after the explicit rows 0 and 2 of a view unit
C2_Witness ==
  /\ AlViewDone
  /\ \E k \in DOMAIN al_rows :
       /\ AlUnselected(k) /\ al_assigned[k] = 3
       /\ AlEarlierExplicit(k) = {0, 2}

\* the CSV rows of the unit are row p with FieldSelector "2" and row q
\* without a selector
AlTwoCsvRows(p, q) ==
  /\ p # q
  /\ {x \in DOMAIN al_rows : str_upper(Get(al_rows[x], "MessageFormat")) = T_CSV} = {p, q}
  /\ AlExplicit(p) /\ AlFieldSelector(al_rows[p]) = <<"2">>
  /\ AlUnselected(q) /\ AlFieldSelector(al_rows[q]) = <<>>

\* C3: in a view unit whose only CSV rows are one with FieldSelector "2" and
\* one without a selector, the unselected row gets index 0 when it stands
\* before the explicit row and index 3 when it stands after it
C3_BeforeAndAfterExplicit ==
  AlViewDone =>
    \A p, q \in DOMAIN al_rows :
      AlTwoCsvRows(p, q) =>
        /\ q < p => (al_assigned[q] = 0 /\ EmittedWith(q, 0))
        /\ q > p => (al_assigned[q] = 3 /\ EmittedWith(q, 3))
        /\ al_assigned[q] = 3 => q > p

\* the unselected row after the explicit row, with a JSON row in the unit
C3_Witness ==
  /\ AlViewDone
  /\ \E p, q \in DOMAIN al_rows :
       /\ AlTwoCsvRows(p, q) /\ q > p
       /\ EmittedWith(q, 3)
       /\ Len(al_rows) = 3

----------------------------------------------------------------------------
(* SpecDup: one non-view table of the mapping: the TargetColumn checks of the
   validation, the sort and grouping of generate, and build_table_ddl *)

DdTable == <<"T">>

\* the rows of the table in the normalised mapping
DdRows ==
  [PipelineStage : {T_FGAC},
   TargetTable : {DdTable},
   TargetColumn : {<<>>, <<"a">>, <<"b">>},
   TargetDataType : {<<>>, <<"I", "N", "T">>},
   IsTargetPK : {<<>>, <<"Y">>}]

DdMappings == UNION {[1..n -> DdRows] : n \in 1..MaxDupRows}

DdProps == {<<>>, << <<<<"k">>, <<"v">>>> >>}

DdInit ==
  /\ dd_mapping \in DdMappings
  /\ dd_props \in DdProps
  /\ dd_errors = <<>>
  /\ dd_rows = <<>>
  /\ dd_cols_seen = {}
  /\ dd_col_lines = <<>>
  /\ dd_pk_cols = <<>>
  /\ dd_ddl = <<>>
  /\ dd_k = 1
  /\ dd_pc = "validate"
  /\ SanIdle /\ RwIdle /\ ExIdle /\ AlIdle /\ MxIdle /\ GnIdle /\ FrIdle /\ TwIdle

\* validate_views_and_alignment, the TargetColumn checks of the table's group
DdValidateColumns ==
  /\ dd_pc = "validate"
  /\ dd_errors' = dd_errors \o ColumnErrors(DdTable, dd_mapping)
  /\ dd_pc' = "sort"
  /\ UNCHANGED <<dd_mapping, dd_props, dd_rows, dd_cols_seen, dd_col_lines,
                 dd_pk_cols, dd_ddl, dd_k, notDd>>

\* generate: the sort of the mapping and the grouping by TargetTable;
\* build_table_ddl begins with nothing seen
DdSortAndGroup ==
  /\ dd_pc = "sort"
  /\ dd_rows' = GroupRows(dd_mapping, DdTable)
  /\ dd_cols_seen' = {}
  /\ dd_col_lines' = <<>>
  /\ dd_pk_cols' = <<>>
  /\ dd_k' = 1
  /\ dd_pc' = "ddl"
  /\ UNCHANGED <<dd_mapping, dd_props, dd_errors, dd_ddl, notDd>>

\* pk_cols after the row at the loop
DdPkCols ==
  IF IsNewPk(dd_rows[dd_k], dd_pk_cols)
  THEN Append(dd_pk_cols, DdlColumn(dd_rows[dd_k]))
  ELSE dd_pk_cols

\* build_table_ddl, one row: a column not seen before gets its line
DdlColumnNew ==
  /\ dd_pc = "ddl" /\ dd_k <= Len(dd_rows)
  /\ IsNewColumn(DdlColumn(dd_rows[dd_k]), dd_cols_seen)
  /\ dd_col_lines' = Append(dd_col_lines,
                            ColumnLine(DdlColumn(dd_rows[dd_k]), TargetType(dd_rows[dd_k])))
  /\ dd_cols_seen' = dd_cols_seen \cup {DdlColumn(dd_rows[dd_k])}
  /\ dd_pk_cols' = DdPkCols
  /\ dd_k' = dd_k + 1
  /\ UNCHANGED <<dd_mapping, dd_props, dd_errors, dd_rows, dd_ddl, dd_pc, notDd>>

\* build_table_ddl, one row: a blank column or one seen before gets no line
DdlColumnSeen ==
  /\ dd_pc = "ddl" /\ dd_k <= Len(dd_rows)
  /\ ~IsNewColumn(DdlColumn(dd_rows[dd_k]), dd_cols_seen)
  /\ dd_pk_cols' = DdPkCols
  /\ dd_k' = dd_k + 1
  /\ UNCHANGED <<dd_mapping, dd_props, dd_errors, dd_rows, dd_cols_seen,
                 dd_col_lines, dd_ddl, dd_pc, notDd>>

\* build_table_ddl after the loop, with primary key columns
DdlFinishWithPk ==
  /\ dd_pc = "ddl" /\ dd_k > Len(dd_rows)
  /\ dd_pk_cols # <<>>
  /\ dd_col_lines' = Append(dd_col_lines, PrimaryKeyLine(dd_pk_cols))
  /\ dd_ddl' = DdlText(DdTable, dd_col_lines', dd_props)
  /\ dd_pc' = "done"
  /\ UNCHANGED <<dd_mapping, dd_props, dd_errors, dd_rows, dd_cols_seen,
                 dd_pk_cols, dd_k, notDd>>

\* build_table_ddl after the loop, without primary key columns
DdlFinishNoPk ==
  /\ dd_pc = "ddl" /\ dd_k > Len(dd_rows)
  /\ dd_pk_cols = <<>>
  /\ dd_ddl' = DdlText(DdTable, dd_col_lines, dd_props)
  /\ dd_pc' = "done"
  /\ UNCHANGED <<dd_mapping, dd_props, dd_errors, dd_rows, dd_cols_seen,
                 dd_col_lines, dd_pk_cols, dd_k, notDd>>

DdNext ==
  \/ DdValidateColumns \/ DdSortAndGroup
  \/ DdlColumnNew \/ DdlColumnSeen \/ DdlFinishWithPk \/ DdlFinishNoPk

SpecDup == DdInit /\ [][DdNext]_vars

\* what the claim speaks of: the values TargetColumn takes in the unit, those
\* that are repeated, the error findings about a value, the lines of the
\* table definition that list a column and the first row of the unit, in its
\* row order, that has the column
DdValues == {dd_mapping[x].TargetColumn : x \in DOMAIN dd_mapping} \ {<<>>}
DdTimes(c) == Cardinality({x \in DOMAIN dd_mapping : dd_mapping[x].TargetColumn = c})
DdDuplicated == {c \in DdValues : DdTimes(c) > 1}
DdFindings(c) == {x \in DOMAIN dd_errors : dd_errors[x] = DuplicateMessage(DdTable, c)}
DdDefinitionLines ==
  LET text == dd_ddl
      breaks == {0} \cup {x \in DOMAIN text : text[x] = "\n"} \cup {Len(text) + 1}
  IN  {SubSeq(text, b + 1, SetMin({y \in breaks : y > b}) - 1) :
         b \in breaks \ {Len(text) + 1}}
DdListing(c) ==
  {l \in DdDefinitionLines : MatchesAt(l, 1, <<" ", " ">> \o c \o <<" ">>)}
DdFirstRow(c) == dd_rows[SetMin({x \in DOMAIN dd_rows : dd_rows[x].TargetColumn = c})]
DdTypeOf(r) == IF r.TargetDataType = <<>> THEN T_STRING ELSE r.TargetDataType
DdLineOf(c, t) == {<<" ", " ">> \o c \o <<" ">> \o t, <<" ", " ">> \o c \o <<" ">> \o t \o <<",">>}

\* C10: a unit with duplicated TargetColumn values gets exactly one error
\* finding per duplicated value, and its table definition lists each column
\* exactly once, with the data type of the column's first row in row order
C10_OneFindingAndFirstWins ==
  DdDuplicated # {} =>
    /\ dd_pc # "validate" =>
         \A c \in DdValues :
           Cardinality(DdFindings(c)) = IF c \in DdDuplicated THEN 1 ELSE 0
    /\ dd_pc = "done" =>
         \A c \in DdValues :
           /\ Cardinality(DdListing(c)) = 1
           /\ DdListing(c) \subseteq DdLineOf(c, DdTypeOf(DdFirstRow(c)))

\* a column on three rows whose data types differ
C10_Witness ==
  /\ dd_pc = "done"
  /\ \E c \in DdDuplicated :
       /\ DdTimes(c) = 3
       /\ \E x \in DOMAIN dd_rows :
            dd_rows[x].TargetColumn = c /\ DdTypeOf(dd_rows[x]) # DdTypeOf(DdFirstRow(c))
       /\ Cardinality(DdFindings(c)) = 1


----------------------------------------------------------------------------
(* SpecMatrix: validate_against_matrix and resolve_table_props, each called
   once on the same mapping tables and configuration matrix *)

\* the mapping's tables and the unit looked at
MxUnits ==
  {[tables |-> {<<"X", "R", "E", "F", "_", "A">>}, unit |-> <<"X", "R", "E", "F", "_", "A">>],
   [tables |-> {<<"X", "R", "E", "F", "_", "A">>, <<"T">>}, unit |-> <<"X", "R", "E", "F",
       "_", "A">>],
   [tables |-> {<<"X", "R", "E", "F", "_", "A">>, <<"T">>}, unit |-> <<"T">>],
   [tables |-> {<<"x", "r", "e", "f", "_", "b">>}, unit |-> <<"x", "r", "e", "f", "_", "b">>]}

\* headers: a Key column and the unit's column; the same in other letter case
\* and with blanks around; no Key column; no column of the unit; a blank
\* header; two headers that are the same once trimmed
MxHeaders ==
  {<<<<"K", "e", "y">>, <<"X", "R", "E", "F", "_", "A">>>>,
   <<<<"K", "e", "y">>, <<"X", "R", "E", "F", "_", "A">>, <<"X", "R", "E", "F", "_", "A", " ">>>>,
   <<<<" ", "k", "e", "y">>, <<"T">>, <<"X", "R", "E", "F", "_", "A", " ">>>>,
   <<<<"K">>, <<"X", "R", "E", "F", "_", "A">>>>,
   <<<<"K", "e", "y">>, <<"U">>>>,
   <<<<"K", "e", "y">>, <<" ">>, <<"X", "R", "E", "F", "_", "A">>>>}

MxKeyCells == {T_CHANGELOG_MODE, <<" ", "k", " ">>, <<>>}
MxCells == {<<"U", "p", "s", "e", "r", "t", " ">>, <<>>, <<" ", "N", "/", "A">>, <<"a", "$",
    "{", "t", "a", "b", "l", "e", "_", "n", "a", "m", "e", "}">>}

\* the rows under the headers h: the Key cell, then one cell per column (a
\* column between the two is filled or not); and the rows with an empty
\* cell, NaN, in the first column, in the last or in both
MxRowsOf(h) ==
  {r \in [DOMAIN h -> MxKeyCells \cup MxCells \cup {<<"x">>}] :
     /\ r[1] \in MxKeyCells
     /\ r[Len(h)] \in MxCells
     /\ \A x \in DOMAIN h \ {1, Len(h)} : r[x] \in {<<>>, <<"x">>}}
  \cup
  {r \in [DOMAIN h -> MxKeyCells \cup {NaN, <<"x">>, <<"U", "p", "s", "e", "r", "t", " ">>}] :
     /\ r[1] \in MxKeyCells \cup {NaN}
     /\ r[Len(h)] \in {NaN, <<"U", "p", "s", "e", "r", "t", " ">>}
     /\ \A x \in DOMAIN h \ {1, Len(h)} : r[x] = <<"x">>
     /\ NaN \in {r[1], r[Len(h)]}}

MxMatrices(max_rows) ==
  {NoMatrix}
  \cup {[present |-> TRUE, headers |-> h, rows |-> <<>>] : h \in {<<<<"K", "e", "y">>, <<"X",
      "R", "E", "F", "_", "A">>>>}}
  \cup UNION {UNION {{[present |-> TRUE, headers |-> h, rows |-> rs] :
                        rs \in [1..n -> MxRowsOf(h)]} :
                     n \in 1..max_rows} :
              h \in MxHeaders}

MxInit ==
  /\ \E u \in MxUnits : mx_tables = u.tables /\ mx_unit = u.unit
  /\ mx_matrix \in MxMatrices(MaxMatrixRows)
  /\ mx_findings = NoFindings
  /\ mx_validated = FALSE
  /\ mx_props = NoProps
  /\ mx_resolved = FALSE
  /\ SanIdle /\ RwIdle /\ ExIdle /\ AlIdle /\ DdIdle /\ GnIdle /\ FrIdle /\ TwIdle

MxValidated(findings) ==
  /\ ~mx_validated
  /\ mx_findings' = findings
  /\ mx_validated' = TRUE
  /\ UNCHANGED <<mx_tables, mx_unit, mx_matrix, mx_props, mx_resolved, notMx>>

\* validate_against_matrix: the matrix is missing or empty
ValidateMatrixMissing ==
  /\ MatrixEmpty(mx_matrix)
  /\ \E mapping_tables \in Iterations(mx_tables) :
       MxValidated(validate_against_matrix(TRUE, mapping_tables, mx_matrix))

\* validate_against_matrix: the assignment of the headers raises, or the
\* read of a repeated label or of an empty cell does
ValidateMatrixRaises ==
  /\ ~MatrixEmpty(mx_matrix)
  /\ \/ HeaderMismatch(mx_matrix)
     \/ /\ ~HeaderMismatch(mx_matrix) /\ KeyColumns(mx_matrix) # {}
        /\ PerTableRaises(mx_matrix) \/ DuplicateCheckRaises(mx_matrix)
  /\ \E mapping_tables \in Iterations(mx_tables) :
       MxValidated(validate_against_matrix(TRUE, mapping_tables, mx_matrix))

\* validate_against_matrix: there is no Key column
ValidateMatrixNoKey ==
  /\ ~MatrixEmpty(mx_matrix) /\ ~HeaderMismatch(mx_matrix)
  /\ KeyColumns(mx_matrix) = {}
  /\ \E mapping_tables \in Iterations(mx_tables) :
       MxValidated(validate_against_matrix(TRUE, mapping_tables, mx_matrix))

\* validate_against_matrix: checks 1 to 4
ValidateMatrixChecks ==
  /\ ~MatrixEmpty(mx_matrix) /\ ~HeaderMismatch(mx_matrix)
  /\ KeyColumns(mx_matrix) # {}
  /\ ~PerTableRaises(mx_matrix) /\ ~DuplicateCheckRaises(mx_matrix)
  /\ \E mapping_tables \in Iterations(mx_tables) :
       MxValidated(validate_against_matrix(TRUE, mapping_tables, mx_matrix))

MxResolved(props) ==
  /\ ~mx_resolved
  /\ mx_props' = props
  /\ mx_resolved' = TRUE
  /\ UNCHANGED <<mx_tables, mx_unit, mx_matrix, mx_findings, mx_validated, notMx>>

\* resolve_table_props: the matrix is missing or empty
ResolveMatrixMissing ==
  /\ MatrixEmpty(mx_matrix)
  /\ MxResolved(resolve_table_props(mx_unit, mx_unit, mx_matrix))

\* resolve_table_props: the assignment of the headers raises, or the read of
\* a repeated label or of an empty cell does
ResolveRaises ==
  /\ ~MatrixEmpty(mx_matrix)
  /\ \/ HeaderMismatch(mx_matrix)
     \/ /\ ~HeaderMismatch(mx_matrix) /\ KeyColumns(mx_matrix) # {}
        /\ ResolveColumn(mx_unit, mx_unit, mx_matrix) # <<>>
        /\ ResolveLoopRaises(mx_matrix, ResolveColumn(mx_unit, mx_unit, mx_matrix))
  /\ MxResolved(resolve_table_props(mx_unit, mx_unit, mx_matrix))

\* resolve_table_props: no Key column, or no column of the table
ResolveNothing ==
  /\ ~MatrixEmpty(mx_matrix) /\ ~HeaderMismatch(mx_matrix)
  /\ \/ KeyColumns(mx_matrix) = {}
     \/ KeyColumns(mx_matrix) # {} /\ ResolveColumn(mx_unit, mx_unit, mx_matrix) = <<>>
  /\ MxResolved(resolve_table_props(mx_unit, mx_unit, mx_matrix))

\* resolve_table_props: the props of the table's column
ResolveColumnProps ==
  /\ ~MatrixEmpty(mx_matrix) /\ ~HeaderMismatch(mx_matrix)
  /\ KeyColumns(mx_matrix) # {}
  /\ ResolveColumn(mx_unit, mx_unit, mx_matrix) # <<>>
  /\ ~ResolveLoopRaises(mx_matrix, ResolveColumn(mx_unit, mx_unit, mx_matrix))
  /\ MxResolved(resolve_table_props(mx_unit, mx_unit, mx_matrix))

MxNext ==
  \/ ValidateMatrixMissing \/ ValidateMatrixRaises \/ ValidateMatrixNoKey
  \/ ValidateMatrixChecks
  \/ ResolveMatrixMissing \/ ResolveRaises \/ ResolveNothing \/ ResolveColumnProps

SpecMatrix == MxInit /\ [][MxNext]_vars

\* what the claims speak of: the unit is named XREF_..., its resolved options
\* have no changelog.mode entry, and the errors that refer to the upsert
\* requirement
MxNamedXref == MatchesAt(mx_unit, 1, <<"X", "R", "E", "F", "_">>)
MxNoChangelogMode ==
  /\ mx_resolved /\ ~mx_props.raised
  /\ \A x \in DOMAIN mx_props.props : mx_props.props[x][1] # T_CHANGELOG_MODE
MxUpsertErrors ==
  {x \in DOMAIN mx_findings.errors :
     /\ Contains(mx_findings.errors[x], T_UPSERT)
     /\ Contains(mx_findings.errors[x], <<"'">> \o mx_unit \o <<"'">>)}

\* C11: for a unit named XREF_... whose resolved options have no
\* changelog.mode entry, validation reports exactly one error that refers to
\* the upsert requirement, whatever the configuration matrix is
C11_OneUpsertError ==
  (mx_validated /\ MxNamedXref /\ MxNoChangelogMode) =>
    (~mx_findings.raised /\ Cardinality(MxUpsertErrors) = 1)


----------------------------------------------------------------------------
(* SpecGen: generate on one workbook, from the mapping sheet as read_excel
   returns it to all_sql: the cells are normalised, the two validations run,
   the rows are sorted and grouped, every unit appends its statements, and
   the sections are joined.  A missing column of the sort raises. *)

\* the mapping sheet as pd.read_excel returns it: the header texts in sheet
\* order (read_excel leaves no two headers equal), a RangeIndex, and under
\* each header the cell the record of the row has in the field of that place
Sheet(headers, fields, rs) ==
  [columns |-> headers,
   index |-> [x \in DOMAIN rs |-> x - 1],
   rows |-> [x \in DOMAIN rs |-> [k \in DOMAIN fields |-> rs[x][fields[k]]]]]

\* the columns cs in the order of ColumnNames
InSheetOrder(cs) == SelectSeq(ColumnNames, LAMBDA c : c \in cs)

\* the sheets whose headers are the names cs, one for each of the row
\* sequences rss
PlainSheets(cs, rss) ==
  LET fields == InSheetOrder(cs)
      headers == [k \in DOMAIN fields |-> ColumnText(fields[k])]
  IN  {Sheet(headers, fields, rs) : rs \in rss}

\* the same with one more column, headed by the name c and a blank after it,
\* which holds the cells of the field Again
RepeatingSheets(cs, c, rss) ==
  LET fields == Append(InSheetOrder(cs), "Again")
      headers == [k \in DOMAIN fields |->
                    IF fields[k] = "Again" THEN ColumnText(c) \o <<" ">>
                    ELSE ColumnText(fields[k])]
  IN  {Sheet(headers, fields, rs) : rs \in rss}

\* the builds a sheet is read in: every release on the sheets where the
\* releases differ (two headers strip to one label), one release on the rest
Builds(sheet) == IF HasRepeatedLabel(StripHeaders(sheet)) THEN PandasBuilds ELSE {"2.1"}

GnAllColumns == {"TargetTable", "TargetColumn", "PipelineStage", "IsTargetPK"}

\* the sheet has all four columns, or lacks one of them
GnColumnSets == {GnAllColumns} \cup {GnAllColumns \ {c} : c \in GnAllColumns}

\* the cells of a column as read: names, a blank cell, stages in both cases
GnCells(c) ==
  IF c = "TargetTable" THEN {<<"A">>, <<"X", "R", "E", "F", "_", "B">>, <<" ">>}
  ELSE IF c = "TargetColumn" THEN {<<"a">>, <<"b", " ">>, <<>>}
  ELSE IF c = "PipelineStage" THEN {<<"V", "I", "E", "W">>, <<"X", "r", "e", "f">>, <<"F",
      "G", "A", "C">>, <<>>}
  ELSE {<<"Y">>, <<>>}

GnSheetRows(cs) ==
  {r \in [cs -> UNION {GnCells(c) : c \in GnAllColumns}] : \A c \in cs : r[c] \in GnCells(c)}

\* rows of the table A with a second cell under the repeated header
GnRepeatingRows ==
  {[TargetTable |-> <<"A">>, TargetColumn |-> <<"a">>, PipelineStage |-> s,
    IsTargetPK |-> <<"Y">>, Again |-> g] :
     s \in {<<"V", "I", "E", "W">>, <<"X", "r", "e", "f">>}, g \in {<<"A">>, <<"b">>, <<>>}}

\* the sheets: under the plain names; with all four columns under headers
\* with a blank before or after; with the header TargetTable or TargetColumn
\* a second time, a blank after it
GnSheets(max_rows) ==
  UNION {UNION {PlainSheets(cs, [1..n -> GnSheetRows(cs)]) :
                n \in 0..max_rows} :
         cs \in GnColumnSets}
  \cup UNION {{Sheet(<<<<" ">> \o ColumnText("TargetTable"), ColumnText("TargetColumn"),
                       ColumnText("PipelineStage"), ColumnText("IsTargetPK") \o <<" ">>>>,
                     InSheetOrder(GnAllColumns), rs) :
                 rs \in [1..n -> GnSheetRows(GnAllColumns)]} :
              n \in 0..max_rows}
  \cup UNION {UNION {RepeatingSheets(GnAllColumns, c, [1..n -> GnRepeatingRows]) :
                     n \in 0..1} :
              c \in {"TargetTable", "TargetColumn"}}

\* no sheet Config_TableMatrix; one with the options of XREF_B; the same
\* under padded headers with an empty cell; one without a Key column
GnMatrices ==
  {NoMatrix,
   [present |-> TRUE, headers |-> <<<<"K", "e", "y">>, <<"X", "R", "E", "F", "_", "B">>>>,
    rows |-> <<<<T_CHANGELOG_MODE, <<"u", "p", "s", "e", "r", "t">>>>, <<<<"t", "o", "p", "i",
        "c">>, <<"$", "{", "t", "a", "b", "l", "e", "_", "n", "a", "m", "e", "}">>>>>>],
   [present |-> TRUE, headers |-> <<<<" ", "k", "e", "y">>, <<"X", "R", "E", "F", "_", "B", " ">>>>,
    rows |-> <<<<T_CHANGELOG_MODE, <<"u", "p", "s", "e", "r", "t">>>>, <<<<"t", "o", "p", "i",
        "c">>, NaN>>>>],
   [present |-> TRUE, headers |-> <<<<"K", " ">>, <<"X", "R", "E", "F", "_", "B">>>>,
    rows |-> <<<<T_CHANGELOG_MODE, NaN>>>>]}

GnInit ==
  /\ gn_mapping \in GnSheets(MaxGenRows)
  /\ gn_matrix \in GnMatrices
  /\ gn_issues = NoIssues
  /\ gn_grouped = <<>>
  /\ gn_views_sql = <<>>
  /\ gn_ddls_sql = <<>>
  /\ gn_xref_inserts = <<>>
  /\ gn_fgac_inserts = <<>>
  /\ gn_all_sql = <<>>
  /\ gn_raised = FALSE
  /\ gn_u = 0
  /\ gn_pc = "load"
  /\ gn_pandas \in Builds(gn_mapping)
  /\ SanIdle /\ RwIdle /\ ExIdle /\ AlIdle /\ DdIdle /\ MxIdle /\ FrIdle /\ TwIdle

\* df.fillna(''): NaN and None cells become ''
fillna(df) ==
  [df EXCEPT !.rows = [x \in DOMAIN df.rows |->
                         [k \in DOMAIN df.rows[x] |->
                            IF df.rows[x][k] \in {NaN, None} THEN <<>> ELSE df.rows[x][k]]]]

\* mapping = norm_cols(pd.read_excel(...).fillna('')), which may raise; then
\* per_table_props, matrix_tables, matrix_df = load_table_matrix(xl), which
\* may raise
GnLoad ==
  /\ gn_pc = "load"
  /\ \E read \in {fillna(gn_mapping)}, loaded \in {load_table_matrix(gn_matrix)} :
        IF NormColsRaises(read, gn_pandas)
        THEN /\ gn_raised' = TRUE
             /\ gn_pc' = "done"
             /\ UNCHANGED <<gn_mapping, gn_matrix>>
        ELSE /\ gn_mapping' = norm_cols(read)
             /\ gn_matrix' = IF loaded.raised THEN gn_matrix ELSE loaded.df
             /\ gn_raised' = loaded.raised
             /\ gn_pc' = IF loaded.raised THEN "done" ELSE "validate"
  /\ UNCHANGED <<gn_pandas, gn_issues, gn_grouped, gn_views_sql, gn_ddls_sql,
                 gn_xref_inserts, gn_fgac_inserts, gn_all_sql, gn_u, notGn>>

\* the TargetTable values of validate_against_matrix's mapping_tables
MappingTables(mapping) ==
  {str_strip(Get(r, "TargetTable")) : r \in Range(RowDicts(mapping))} \ {<<>>}

\* mapping_df["TargetTable"].tolist() raises AttributeError: under a label of
\* several columns mapping_df["TargetTable"] is a DataFrame
TolistRaises(mapping) == Len(ColumnsLabelled(mapping, "TargetTable")) > 1

\* v1, v2 and issues; the set mapping_tables is met in some order
GnValidate ==
  /\ gn_pc = "validate"
  /\ \E v1 \in {validate_views_and_alignment(gn_mapping)},
        mapping_tables \in Iterations(MappingTables(gn_mapping)) :
        \E v2 \in {validate_against_matrix("TargetTable" \in Labels(gn_mapping),
                                           mapping_tables, gn_matrix)} :
           \E raised \in {v1.raised \/ TolistRaises(gn_mapping) \/ v2.raised} :
              /\ gn_issues' = IF raised THEN gn_issues
                              ELSE [errors |-> v1.errors \o v2.errors,
                                    warnings |-> v1.warnings \o v2.warnings]
              /\ gn_raised' = raised
              /\ gn_pc' = IF raised THEN "done" ELSE "sort"
  /\ UNCHANGED <<gn_pandas, gn_mapping, gn_matrix, gn_grouped, gn_views_sql, gn_ddls_sql,
                 gn_xref_inserts, gn_fgac_inserts, gn_all_sql, gn_u, notGn>>

\* lines 269-271 raise: the mapping lacks a column the sort reads, or has
\* one of them twice
GnSortRaises ==
  /\ gn_pc = "sort"
  /\ SortRaises(gn_mapping)
  /\ gn_raised' = TRUE
  /\ gn_pc' = "done"
  /\ UNCHANGED <<gn_pandas, gn_mapping, gn_matrix, gn_issues, gn_grouped, gn_views_sql,
                 gn_ddls_sql, gn_xref_inserts, gn_fgac_inserts, gn_all_sql, gn_u, notGn>>

\* the rows are sorted and grouped by TargetTable; the sort moves whole rows,
\* each with its index, so that the texts of a row are those it has before
GnSortAndGroup ==
  /\ gn_pc = "sort"
  /\ ~SortRaises(gn_mapping)
  /\ gn_grouped' = grouped(sort_values(RowDicts(gn_mapping)))
  /\ gn_u' = 1
  /\ gn_pc' = "units"
  /\ UNCHANGED <<gn_pandas, gn_mapping, gn_matrix, gn_issues, gn_views_sql, gn_ddls_sql,
                 gn_xref_inserts, gn_fgac_inserts, gn_all_sql, gn_raised, notGn>>

GnAtUnit == gn_pc = "units" /\ gn_u <= Len(gn_grouped)
GnUnitRows == gn_grouped[gn_u].rows
GnUnitName == gn_grouped[gn_u].logical

\* a VIEW unit: its view is appended to views_sql
GnViewUnit ==
  /\ GnAtUnit
  /\ UnitStage(GnUnitRows) = T_VIEW
  /\ gn_views_sql' =
       Append(gn_views_sql,
              Labelled(GnUnitName,
                       build_view_sql(GnUnitName, GnUnitRows, UnitExprs(GnUnitRows, TRUE),
                                      filt_sql(GnUnitRows))))
  /\ gn_u' = gn_u + 1
  /\ UNCHANGED <<gn_pandas, gn_mapping, gn_matrix, gn_issues, gn_grouped, gn_ddls_sql,
                 gn_xref_inserts, gn_fgac_inserts, gn_all_sql, gn_raised, gn_pc, notGn>>

\* the DDL and the insert of a unit that is not a view
GnUnitDdl ==
  Labelled(GnUnitName,
           build_table_ddl(GnUnitName, GnUnitRows,
                           resolve_table_props(GnUnitName, GnUnitName, gn_matrix).props))
GnUnitInsert ==
  Labelled(GnUnitName,
           build_insert_sql(GnUnitName, GnUnitRows, UnitExprs(GnUnitRows, FALSE),
                            where_nonview(GnUnitRows)))

\* an XREF unit: its DDL and its insert are appended
GnXrefUnit ==
  /\ GnAtUnit
  /\ UnitStage(GnUnitRows) = T_XREF
  /\ gn_ddls_sql' = Append(gn_ddls_sql, GnUnitDdl)
  /\ gn_xref_inserts' = Append(gn_xref_inserts, GnUnitInsert)
  /\ gn_u' = gn_u + 1
  /\ UNCHANGED <<gn_pandas, gn_mapping, gn_matrix, gn_issues, gn_grouped, gn_views_sql,
                 gn_fgac_inserts, gn_all_sql, gn_raised, gn_pc, notGn>>

\* a unit of any other stage: its DDL and its insert are appended
GnOtherUnit ==
  /\ GnAtUnit
  /\ UnitStage(GnUnitRows) \notin {T_VIEW, T_XREF}
  /\ gn_ddls_sql' = Append(gn_ddls_sql, GnUnitDdl)
  /\ gn_fgac_inserts' = Append(gn_fgac_inserts, GnUnitInsert)
  /\ gn_u' = gn_u + 1
  /\ UNCHANGED <<gn_pandas, gn_mapping, gn_matrix, gn_issues, gn_grouped, gn_views_sql,
                 gn_xref_inserts, gn_all_sql, gn_raised, gn_pc, notGn>>

\* the sections are joined into all_sql, and generate returns
GnSections ==
  /\ gn_pc = "units" /\ gn_u > Len(gn_grouped)
  /\ gn_all_sql' = AllSql(Sections(gn_views_sql, gn_ddls_sql, gn_xref_inserts,
                                   gn_fgac_inserts))
  /\ gn_pc' = "done"
  /\ UNCHANGED <<gn_pandas, gn_mapping, gn_matrix, gn_issues, gn_grouped, gn_views_sql,
                 gn_ddls_sql, gn_xref_inserts, gn_fgac_inserts, gn_raised, gn_u, notGn>>

GnNext ==
  \/ GnLoad \/ GnValidate \/ GnSortRaises \/ GnSortAndGroup
  \/ GnViewUnit \/ GnXrefUnit \/ GnOtherUnit \/ GnSections

SpecGen == GnInit /\ [][GnNext]_vars


\* what the claims speak of: the units of the mapping, a unit with at least
\* one TargetColumn, and the statements of a unit in the consolidated SQL
GnDone == gn_pc = "done"
GnRecords == RowDicts(gn_mapping)
GnUnits == MappingTables(gn_mapping)
GnUnitHasColumn(t) ==
  \E x \in DOMAIN GnRecords :
     /\ Get(GnRecords[x], "TargetTable") = t
     /\ Get(GnRecords[x], "TargetColumn") # <<>>
GnHasView(t) == Contains(gn_all_sql, <<"C", "R", "E", "A", "T", "E", " ", "V", "I", "E", "W",
    " ">> \o t \o <<" ", "A", "S">>)
GnHasTable(t) == Contains(gn_all_sql, <<"C", "R", "E", "A", "T", "E", " ", "T", "A", "B", "L",
    "E", " ", "I", "F", " ", "N", "O", "T", " ", "E", "X", "I", "S", "T", "S",
        " ">> \o t \o <<" ", "(">>)
GnHasInsert(t) == Contains(gn_all_sql, <<"I", "N", "S", "E", "R", "T", " ", "I", "N", "T",
    "O", " ">> \o t \o <<" ", "(">>)
GnHasStatement(t) == GnHasView(t) \/ GnHasTable(t) \/ GnHasInsert(t)
GnErrors == Range(gn_issues.errors)

\* C12: a unit without any TargetColumn yields an error and no statement (no
\* view, no table definition, no insert); every unit with a TargetTable and
\* at least one TargetColumn has its statements in the generated SQL
C12_NoColumnsNoStatement ==
  (GnDone /\ ~gn_raised) =>
    \A t \in GnUnits :
       IF GnUnitHasColumn(t) THEN GnHasStatement(t)
       ELSE NoColumnsMessage(t) \in GnErrors /\ ~GnHasStatement(t)

\* the first of the required columns TargetTable and TargetColumn the mapping lacks
GnLacksColumn ==
  "TargetTable" \notin Labels(gn_mapping) \/ "TargetColumn" \notin Labels(gn_mapping)
GnLackedColumn ==
  IF "TargetTable" \notin Labels(gn_mapping) THEN "TargetTable" ELSE "TargetColumn"

\* C13: when the mapping lacks the TargetTable or the TargetColumn column,
\* generation completes without an exception and its findings hold the error
\* for the missing column
C13_MissingColumnIsAFinding ==
  (GnDone /\ GnLacksColumn) =>
    /\ ~gn_raised
    /\ MissingColumnMessage(ColumnText(GnLackedColumn)) \in GnErrors


\* where the statements and the statement-set block stand in all_sql
GnAt(pat) == {x \in DOMAIN gn_all_sql : MatchesAt(gn_all_sql, x, pat)}
GnViewsAt == GnAt(<<"C", "R", "E", "A", "T", "E", " ", "V", "I", "E", "W", " ">>)
GnTablesAt == GnAt(<<"C", "R", "E", "A", "T", "E", " ", "T", "A", "B", "L", "E", " ">>)
GnInsertsAt == GnAt(<<"I", "N", "S", "E", "R", "T", " ", "I", "N", "T", "O", " ">>)
GnBeginsAt == GnAt(<<"E", "X", "E", "C", "U", "T", "E", " ", "S", "T", "A", "T", "E", "M",
    "E", "N", "T", " ", "S", "E", "T", "\n", "B", "E", "G", "I", "N", "\n">>)
GnEndsAt == GnAt(<<"\n", "E", "N", "D", ";">>)
GnViewUnits ==
  {gn_grouped[x].logical : x \in {y \in DOMAIN gn_grouped :
     str_upper(Get(gn_grouped[y].rows[1], "PipelineStage")) = T_VIEW}}

\* C18: in the consolidated SQL every view stands before every table
\* definition, every table definition before the one statement-set block,
\* which wraps all the inserts; a section is there only when it has a
\* statement; a view unit has no table definition and no insert
C18_SectionOrder ==
  (GnDone /\ ~gn_raised) =>
    /\ \A v \in GnViewsAt, t \in GnTablesAt : v < t
    /\ \A t \in GnTablesAt, b \in GnBeginsAt : t < b
    /\ \A v \in GnViewsAt, b \in GnBeginsAt : v < b
    /\ Cardinality(GnBeginsAt) <= 1 /\ Cardinality(GnEndsAt) = Cardinality(GnBeginsAt)
    /\ GnInsertsAt # {} <=> GnBeginsAt # {}
    /\ \A i \in GnInsertsAt, b \in GnBeginsAt, e \in GnEndsAt : b < i /\ i < e
    /\ GnAt(T_VIEWS_HEADER) # {} <=> GnViewsAt # {}
    /\ GnAt(T_TABLES_HEADER) # {} <=> GnTablesAt # {}
    /\ GnAt(T_INSERTS_HEADER) # {} <=> GnInsertsAt # {}
    /\ \A t \in GnViewUnits : GnHasView(t) /\ ~GnHasTable(t) /\ ~GnHasInsert(t)
    /\ \A t \in GnUnits \ GnViewUnits : ~GnHasView(t) /\ GnHasTable(t) /\ GnHasInsert(t)

\* a view unit and a unit that is not a view: all three sections are there
C18_Witness ==
  /\ GnDone /\ ~gn_raised
  /\ GnViewUnits # {} /\ GnUnits \ GnViewUnits # {}
  /\ GnViewsAt # {} /\ GnTablesAt # {} /\ GnInsertsAt # {}


\* what the claims speak of: the units that are no view, the column names of
\* a unit's table definition (the TargetColumn values, each at its first
\* place), the lines of these columns in the definition, and the head of an
\* insert statement with a given column list and one select line per column
GnTableUnits ==
  {u \in DOMAIN gn_grouped : UnitStage(gn_grouped[u].rows) # T_VIEW}
GnNamed(rows) ==
  SelectSeq([x \in DOMAIN rows |-> Get(rows[x], "TargetColumn")], NonBlank)
GnFirstPlaces(named) ==
  LET F[n \in 0..Len(named)] ==
        IF n = 0 THEN <<>>
        ELSE IF \E y \in 1..(n - 1) : named[y] = named[n] THEN F[n - 1]
        ELSE Append(F[n - 1], n)
  IN  F[Len(named)]
GnEveryPlace(named) == [x \in DOMAIN named |-> x]
GnDefinitionOf(u) ==
  LET named == GnNamed(gn_grouped[u].rows)
      at == GnFirstPlaces(named)
  IN  <<"C", "R", "E", "A", "T", "E", " ", "T", "A", "B", "L", "E", " ", "I", "F", " ", "N",
      "O", "T", " ", "E", "X", "I", "S", "T", "S", " ">> \o gn_grouped[u].logical \o <<" ",
          "(", "\n">>
      \o JoinTexts(<<",", "\n">>, [x \in DOMAIN at |-> <<" ", " ">> \o named[at[x]] \o <<" ",
          "S", "T", "R", "I", "N", "G">>])
GnDefinitionEnds == {<<"\n", ")">>, <<",", "\n", " ", " ", "P", "R", "I", "M", "A", "R", "Y",
    " ", "K", "E", "Y">>}
GnInsertOf(u, at) ==
  LET rows == gn_grouped[u].rows
      named == GnNamed(rows)
      lines == SelectLines(rows, UnitExprs(rows, FALSE))
  IN  <<"I", "N", "S", "E", "R", "T", " ", "I", "N", "T", "O",
      " ">> \o gn_grouped[u].logical \o <<" ", "(">>
      \o JoinTexts(<<",", " ">>, [x \in DOMAIN at |-> named[at[x]]])
      \o <<")", "\n", "S", "E", "L", "E", "C", "T", "\n">>
      \o JoinTexts(<<",", "\n">>, [x \in DOMAIN at |-> lines[at[x]]])
      \o <<"\n", "F", "R", "O", "M", " ">>
GnDefinitionHasEachOnce(u) ==
  \E e \in GnDefinitionEnds : Contains(gn_all_sql, GnDefinitionOf(u) \o e)

\* C28: for every unit that is no view, the column list of the INSERT
\* statement names the columns of the unit's table definition, each once,
\* and the INSERT has one select expression for each listed column
C28_InsertListsDefinedColumnsOnce ==
  (GnDone /\ ~gn_raised) =>
    \A u \in GnTableUnits :
       /\ GnDefinitionHasEachOnce(u)
       /\ Contains(gn_all_sql,
                   GnInsertOf(u, GnFirstPlaces(GnNamed(gn_grouped[u].rows))))

\* the table definition has each TargetColumn value once, and the INSERT has
\* one column and one select expression for each row with a TargetColumn
C28_InsertListsEveryNamedRow ==
  (GnDone /\ ~gn_raised) =>
    \A u \in GnTableUnits :
       /\ GnDefinitionHasEachOnce(u)
       /\ Contains(gn_all_sql,
                   GnInsertOf(u, GnEveryPlace(GnNamed(gn_grouped[u].rows))))

\* what the claim speaks of: the units whose insert goes to the XREF part of
\* the statement set, the units whose resolved options set changelog.mode to
\* upsert, and the upsert errors that name a unit
GnXrefUnits ==
  {u \in DOMAIN gn_grouped : UnitStage(gn_grouped[u].rows) = T_XREF}
GnSetsUpsert(u) ==
  LET props == resolve_table_props(gn_grouped[u].logical, gn_grouped[u].logical,
                                   gn_matrix).props
  IN  \E x \in DOMAIN props :
         props[x][1] = T_CHANGELOG_MODE /\ str_lower(str_strip(props[x][2])) = <<"u", "p",
             "s", "e", "r", "t">>
GnUpsertErrors(u) ==
  {x \in DOMAIN gn_issues.errors :
     /\ Contains(gn_issues.errors[x], T_UPSERT)
     /\ Contains(gn_issues.errors[x], <<"'">> \o gn_grouped[u].logical \o <<"'">>)}
GnInXrefPart(u) ==
  \E x \in DOMAIN gn_xref_inserts :
     MatchesAt(gn_xref_inserts[x], 1,
               Labelled(gn_grouped[u].logical, <<"I", "N", "S", "E", "R", "T", " ", "I", "N",
                   "T", "O", " ">> \o gn_grouped[u].logical))

\* C29: every unit that is generated as a cross-reference table (stage XREF,
\* its insert in the XREF part of the statement set) and whose resolved
\* options do not set changelog.mode to upsert has an upsert error,
\* whatever its name
C29_XrefWithoutUpsertIsAnError ==
  (GnDone /\ ~gn_raised) =>
    \A u \in GnXrefUnits :
       (GnInXrefPart(u) /\ ~GnSetsUpsert(u)) => GnUpsertErrors(u) # {}

\* every unit of stage XREF has its insert in the XREF part
C29_XrefUnitsInXrefPart ==
  (GnDone /\ ~gn_raised) => \A u \in GnXrefUnits : GnInXrefPart(u)

\* an upsert error names a unit called XREF_..., in any letter case
C29_UpsertErrorOnlyByName ==
  mx_validated =>
    (MxUpsertErrors # {} => MatchesAt(str_upper(mx_unit), 1, T_XREF \o <<"_">>))

----------------------------------------------------------------------------
(* SpecFilter: generate on a mapping of one unit, V, whose rows carry a
   FilterPredicate, in some sheets under two headers that differ by a blank.
   The sheet has every column the sort reads once, so the steps are those of
   SpecGen without the raising one. *)

FlColumns == GnAllColumns \cup {"FilterPredicate"}

\* no filter; a condition; the same with a keyword and a semicolon; a bare
\* keyword; a condition on a name with an underscore, padded
FlFilters ==
  {<<>>, <<"S", "T", "A", "T", "U", "S", " ", "=", " ", "'", "A", "'">>, <<"w", "h", "e", "r",
      "e", " ", "S", "T", "A", "T", "U", "S", " ", "=", " ", "'", "A", "'", ";">>, <<"A", "N",
          "D">>, <<" ", "X", "_", "I", "D", " ", "=", " ", "1">>}

FlSheetRows(stage) ==
  {[TargetTable |-> <<"V">>, PipelineStage |-> stage, TargetColumn |-> c,
    IsTargetPK |-> p, FilterPredicate |-> f] :
     c \in {<<"a">>, <<"b">>}, p \in {<<"Y">>, <<>>}, f \in FlFilters}

\* rows with a second filter cell, under the header FilterPredicate with a
\* blank after it
FlRepeatingRows(stage) ==
  {[TargetTable |-> <<"V">>, PipelineStage |-> stage, TargetColumn |-> c,
    IsTargetPK |-> p, FilterPredicate |-> f, Again |-> g] :
     c \in {<<"a">>, <<"b">>}, p \in {<<"Y">>, <<>>},
     f \in {<<>>, <<"S", "T", "A", "T", "U", "S", " ", "=", " ", "'", "A",
         "'">>}, g \in {<<>>, <<"X", "_", "I", "D", " ", "=", " ", "1">>}}

FlStages == {<<"V", "i", "e", "w">>, <<"X", "R", "E", "F">>, <<"F", "G", "A", "C">>}

FlSheets(max_rows) ==
  UNION {UNION {PlainSheets(FlColumns, [1..n -> FlSheetRows(stage)]) :
                n \in 1..max_rows} :
         stage \in FlStages}
  \cup UNION {UNION {RepeatingSheets(FlColumns, "FilterPredicate",
                                      [1..n -> FlRepeatingRows(stage)]) :
                     n \in 1..2} :
              stage \in FlStages}

FlInit ==
  /\ gn_mapping \in FlSheets(MaxFilterRows)
  /\ gn_matrix = NoMatrix
  /\ gn_issues = NoIssues
  /\ gn_grouped = <<>>
  /\ gn_views_sql = <<>>
  /\ gn_ddls_sql = <<>>
  /\ gn_xref_inserts = <<>>
  /\ gn_fgac_inserts = <<>>
  /\ gn_all_sql = <<>>
  /\ gn_raised = FALSE
  /\ gn_u = 0
  /\ gn_pc = "load"
  /\ gn_pandas \in Builds(gn_mapping)
  /\ SanIdle /\ RwIdle /\ ExIdle /\ AlIdle /\ DdIdle /\ MxIdle /\ FrIdle /\ TwIdle

FlNext ==
  \/ GnLoad \/ GnValidate \/ GnSortAndGroup
  \/ GnViewUnit \/ GnXrefUnit \/ GnOtherUnit \/ GnSections

SpecFilter == FlInit /\ [][FlNext]_vars

\* what the claims speak of: the one unit, its rows in the unit's row order,
\* the rows that carry a filter, and the WHERE clause of the statement
FlDone == gn_pc = "done" /\ Len(gn_grouped) = 1
FlRows == gn_grouped[1].rows
FlIsView == str_upper(Get(FlRows[1], "PipelineStage")) = T_VIEW
FlCarriesFilter(x) == Get(FlRows[x], "FilterPredicate") # <<>>
FlIsPk(x) == str_upper(Get(FlRows[x], "IsTargetPK")) = <<"Y">>
FlPkWithFilter == {x \in DOMAIN FlRows : FlIsPk(x) /\ FlCarriesFilter(x)}
FlHasWhere == Contains(gn_all_sql, <<"W", "H", "E", "R", "E">>)
FlEndsWithWhere(predicate) ==
  Contains(gn_all_sql, <<"\n", "F", "R", "O", "M", " ", "(", "V", "A", "L", "U", "E", "S",
      "(", "1", ")", ")", " ", "t", "(", "d", "u", "m", "m", "y", ")", "\n", "W", "H", "E",
          "R", "E", " ">> \o predicate \o <<";", "\n">>)

\* the row of the sheet that stands at place k of the unit, and the cells the
\* sheet holds for it under the headers that read c once stripped
FlSheetRow(k) == CHOOSE x \in DOMAIN GnRecords : StripRow(GnRecords[x]) = FlRows[k]
FlCells(k, c) ==
  LET at == ColumnsLabelled(gn_mapping, c)
  IN  {gn_mapping.rows[FlSheetRow(k)][at[i]] : i \in DOMAIN at}

\* the readings of the column c: for every row of the unit, in the unit's
\* row order, one of the cells the sheet holds for the row under c
FlReadings(c) ==
  {q \in [DOMAIN FlRows -> UNION {FlCells(k, c) : k \in DOMAIN FlRows}] :
     \A k \in DOMAIN FlRows : q[k] \in FlCells(k, c)}

\* under the reading q of FilterPredicate: the primary-key rows that carry a
\* filter, and the filter of the first of them, sanitized and then rewritten
FlPkFilters(q) == {k \in DOMAIN FlRows : FlIsPk(k) /\ q[k] # <<>>}
FlFirstPkFilter(q) ==
  rewrite_predicate_as_json(sanitize_predicate(q[SetMin(FlPkFilters(q))]), raw_payload_col)
FlViewWhereIs(q) ==
  IF FlPkFilters(q) = {} THEN ~FlHasWhere
  ELSE IF FlFirstPkFilter(q) = <<>> THEN ~FlHasWhere
  ELSE FlEndsWithWhere(FlFirstPkFilter(q))

\* C14: the WHERE clause of a view is built only from the FilterPredicate
\* cell of the first row, in the unit's row order, that is flagged primary
\* key and carries a filter, sanitized and then rewritten to JSON lookups;
\* when no primary-key row carries a filter the view has no WHERE clause,
\* whatever the filters of the other rows are
C14_ViewWhereFromFirstPkFilter ==
  (FlDone /\ FlIsView) => \E q \in FlReadings("FilterPredicate") : FlViewWhereIs(q)

\* the same for the sheets in which no two headers read the same once stripped
C14_HoldsWhenHeadersDiffer ==
  (FlDone /\ FlIsView /\ ~HasRepeatedLabel(gn_mapping)) =>
    \E q \in FlReadings("FilterPredicate") : FlViewWhereIs(q)

\* a view whose second primary-key row and whose non-key row carry other
\* filters than the first primary-key row, which gives the WHERE clause
C14_FirstOfThree ==
  /\ FlDone /\ FlIsView /\ Len(FlRows) = 3 /\ ~HasRepeatedLabel(gn_mapping)
  /\ FlPkWithFilter = {1, 2} /\ FlCarriesFilter(3)
  /\ Get(FlRows[2], "FilterPredicate") # Get(FlRows[1], "FilterPredicate")
  /\ Get(FlRows[3], "FilterPredicate") # Get(FlRows[1], "FilterPredicate")
  /\ FlEndsWithWhere(<<"J", "S", "O", "N", "_", "V", "A", "L", "U", "E", "(", "C", "A", "S",
      "T", "(", "v", "a", "l", " ", "A", "S", " ", "S", "T", "R", "I", "N", "G", ")", ",",
          " ", "'", "$", ".", "S", "T", "A", "T", "U", "S", "'", ")", " ", "=", " ", "'", "A",
              "'">>)

\* a view read from a sheet with the headers FilterPredicate and
\* FilterPredicate followed by a blank, both cells of its primary-key row
\* empty: the view has a WHERE clause
C14_WhereWithoutFilter ==
  /\ FlDone /\ FlIsView /\ Len(FlRows) = 1 /\ FlIsPk(1)
  /\ FlCells(1, "FilterPredicate") = {<<>>}
  /\ FlHasWhere

\* under the reading q of FilterPredicate: the sanitized texts of the filters
\* of the rows, in row order, each text at its first place only
FlSanitized(q) ==
  uniq(SelectSeq([x \in DOMAIN FlRows |-> sanitize_predicate(q[x])], NonBlank))
FlInsertWhereIs(q) ==
  IF FlSanitized(q) = <<>> THEN ~FlHasWhere
  ELSE FlEndsWithWhere(JoinTexts(<<" ", "A", "N", "D", " ">>, FlSanitized(q)))

\* C16: the WHERE clause of a unit that is not a view is the sanitized
\* non-empty FilterPredicate cells of its rows joined with AND in row order,
\* each distinct sanitized text once, and no token is rewritten into a JSON
\* lookup
C16_NonViewWhereJoinsFilters ==
  (FlDone /\ ~FlIsView) =>
    /\ \E q \in FlReadings("FilterPredicate") : FlInsertWhereIs(q)
    /\ ~Contains(gn_all_sql, T_JSON_VALUE)

\* the same for the sheets in which no two headers read the same once stripped
C16_HoldsWhenHeadersDiffer ==
  (FlDone /\ ~FlIsView /\ ~HasRepeatedLabel(gn_mapping)) =>
    /\ \E q \in FlReadings("FilterPredicate") : FlInsertWhereIs(q)
    /\ ~Contains(gn_all_sql, T_JSON_VALUE)

\* three rows with filters, two of which are the same once sanitized
C16_TwoOfThree ==
  /\ FlDone /\ ~FlIsView /\ Len(FlRows) = 3 /\ ~HasRepeatedLabel(gn_mapping)
  /\ \A x \in 1..3 : FlCarriesFilter(x)
  /\ Get(FlRows[1], "FilterPredicate") # Get(FlRows[3], "FilterPredicate")
  /\ FlEndsWithWhere(<<"S", "T", "A", "T", "U", "S", " ", "=", " ", "'", "A", "'", " ", "A",
      "N", "D", " ", "X", "_", "I", "D", " ", "=", " ", "1">>)

\* a unit that is no view, read from a sheet with the two headers, both cells
\* of its row empty: the insert has a WHERE clause
C16_WhereWithoutFilter ==
  /\ FlDone /\ ~FlIsView /\ Len(FlRows) = 1
  /\ FlCells(1, "FilterPredicate") = {<<>>}
  /\ FlHasWhere


\* the warnings of the validation that speak of a FilterPredicate
FlFilterWarnings ==
  {x \in DOMAIN gn_issues.warnings :
     Contains(gn_issues.warnings[x], <<"F", "i", "l", "t", "e", "r", "P", "r", "e", "d", "i",
         "c", "a", "t", "e">>)}
FlNonPkWithFilter == {x \in DOMAIN FlRows : ~FlIsPk(x) /\ FlCarriesFilter(x)}

\* C15: for a view unit the validation reports a warning when a row that is
\* not flagged primary key carries a FilterPredicate, and a warning when more
\* than one primary-key row carries one
C15_FilterWarnings ==
  (FlDone /\ FlIsView) =>
    /\ FlNonPkWithFilter # {} => FlFilterWarnings # {}
    /\ Cardinality(FlPkWithFilter) > 1 => FlFilterWarnings # {}



\* what the claim speaks of: the primary-key rows with a filter in the order
\* of the sheet, the filter of the first of them, and the filter of the first
\* of them in the unit's sorted order, which the WHERE clause is built from
FlSheetPkWithFilter ==
  {x \in DOMAIN GnRecords :
     /\ str_upper(Get(GnRecords[x], "IsTargetPK")) = <<"Y">>
     /\ Get(GnRecords[x], "FilterPredicate") # <<>>}
FlInspected == Get(GnRecords[SetMin(FlSheetPkWithFilter)], "FilterPredicate")
FlUsed == Get(FlRows[SetMin(FlPkWithFilter)], "FilterPredicate")
FlShapeWarned == \E x \in DOMAIN gn_issues.warnings :
                    gn_issues.warnings[x] = FilterShapeMessage(gn_grouped[1].logical)

\* C25: for a view unit with a filter on a primary-key row, the filter whose
\* leading keyword the validation looks at is the filter the WHERE clause of
\* the view is built from: the warning is given exactly when that filter
\* begins with WHERE, AND or OR
C25_InspectedFilterIsUsedFilter ==
  (FlDone /\ FlIsView /\ FlPkWithFilter # {}) =>
    /\ FlInspected = FlUsed
    /\ FlShapeWarned <=> LeadingKeywordLen(FlUsed) > 0

\* the validation looks at the first such filter in the order of the sheet
C25_WarningFollowsSheetOrder ==
  (FlDone /\ FlIsView /\ FlPkWithFilter # {}) =>
    (FlShapeWarned <=> LeadingKeywordLen(FlInspected) > 0)

\* the same as C25 for the sheets with at most one filter on a primary-key row
C25_SameWhenOneFilter ==
  (FlDone /\ FlIsView /\ Cardinality(FlPkWithFilter) = 1) =>
    /\ FlInspected = FlUsed
    /\ FlShapeWarned <=> LeadingKeywordLen(FlUsed) > 0
----------------------------------------------------------------------------
(* SpecJoin: generate on a mapping of one unit, T, whose rows carry the join
   fields JoinTable, JoinCondition, JoinType and JoinAlias, in some sheets
   with the header JoinTable twice, a blank after the second *)

JnColumns == GnAllColumns \cup {"JoinTable", "JoinCondition", "JoinType", "JoinAlias"}

\* a declared kind in another letter case, one that is none of the four, none
JnTypes == {<<"i", "n", "n", "e", "r">>, <<"R", "i", "g", "h", "t">>, <<"C", "R", "O", "S",
    "S">>, <<>>}

JnSheetRows(stage) ==
  {[TargetTable |-> <<"T">>, PipelineStage |-> stage, TargetColumn |-> c,
    IsTargetPK |-> <<>>, JoinTable |-> jt, JoinCondition |-> jc, JoinType |-> jty,
    JoinAlias |-> ja] :
     c \in {<<"a">>, <<"b">>}, jt \in {<<"J", "1">>, <<"J", "2">>, <<>>},
     jc \in {<<"t", ".", "x", " ", "=", " ", "j", ".",
         "x">>, <<>>}, jty \in JnTypes, ja \in {<<"k">>, <<>>}}

\* rows with a second join table cell, under the header JoinTable with a
\* blank after it
JnRepeatingRows(stage) ==
  {[TargetTable |-> <<"T">>, PipelineStage |-> stage, TargetColumn |-> c,
    IsTargetPK |-> <<>>, JoinTable |-> jt, JoinCondition |-> jc, JoinType |-> <<>>,
    JoinAlias |-> <<>>, Again |-> g] :
     c \in {<<"a">>, <<"b">>}, jt \in {<<"J", "1">>, <<>>},
     jc \in {<<"t", ".", "x", " ", "=", " ", "j", ".", "x">>, <<>>}, g \in {<<"J", "2">>, <<>>}}

JnStages == {<<"V", "I", "E", "W">>, <<"X", "R", "E", "F">>, <<>>}

JnSheets(max_rows) ==
  UNION {UNION {PlainSheets(JnColumns, [1..n -> JnSheetRows(stage)]) :
                n \in 1..max_rows} :
         stage \in JnStages}
  \cup UNION {UNION {RepeatingSheets(JnColumns, "JoinTable",
                                      [1..n -> JnRepeatingRows(stage)]) :
                     n \in 1..2} :
              stage \in JnStages}

JnInit ==
  /\ gn_mapping \in JnSheets(MaxJoinRows)
  /\ gn_matrix = NoMatrix
  /\ gn_issues = NoIssues
  /\ gn_grouped = <<>>
  /\ gn_views_sql = <<>>
  /\ gn_ddls_sql = <<>>
  /\ gn_xref_inserts = <<>>
  /\ gn_fgac_inserts = <<>>
  /\ gn_all_sql = <<>>
  /\ gn_raised = FALSE
  /\ gn_u = 0
  /\ gn_pc = "load"
  /\ gn_pandas \in Builds(gn_mapping)
  /\ SanIdle /\ RwIdle /\ ExIdle /\ AlIdle /\ DdIdle /\ MxIdle /\ FrIdle /\ TwIdle

SpecJoin == JnInit /\ [][FlNext]_vars

\* what the claims speak of: the rows with both join fields, and the join
\* clauses of the generated SQL
JnQualifying ==
  {x \in DOMAIN FlRows :
     Get(FlRows[x], "JoinTable") # <<>> /\ Get(FlRows[x], "JoinCondition") # <<>>}
JnJoinClauses == {x \in DOMAIN gn_all_sql : MatchesAt(gn_all_sql, x, <<" ", "J", "O", "I",
    "N", " ">>)}
JnDeclaredKind(r) == str_upper(Get(r, "JoinType"))
JnKind(r) ==
  IF JnDeclaredKind(r) \in {<<"I", "N", "N", "E", "R">>, <<"L", "E", "F", "T">>, <<"R", "I",
      "G", "H", "T">>, <<"F", "U", "L", "L">>}
  THEN JnDeclaredKind(r) ELSE <<"L", "E", "F", "T">>
JnAlias(r) == IF Get(r, "JoinAlias") = <<>> THEN <<"j">> ELSE Get(r, "JoinAlias")

\* the clause the row r asks for when its JoinTable is the cell jt
JnClauseOf(r, jt) ==
  <<"\n", "F", "R", "O", "M", " ", "(", "V", "A", "L", "U", "E", "S", "(", "1", ")", ")", " ",
      "t", "(", "d", "u", "m", "m", "y", ")", "\n", " ", " ">> \o JnKind(r) \o <<" ", "J",
          "O", "I", "N", " ">>
  \o jt \o <<" ">> \o JnAlias(r) \o <<" ", "O", "N", " ">>
  \o Get(r, "JoinCondition") \o <<";", "\n">>

\* under the reading q of JoinTable (for every row of the unit one of the
\* cells the sheet holds for it under that header): the rows with both fields
JnBoth(q) == {x \in DOMAIN FlRows : q[x] # <<>> /\ Get(FlRows[x], "JoinCondition") # <<>>}
JnJoinIs(q) ==
  IF JnBoth(q) = {} THEN JnJoinClauses = {}
  ELSE /\ Cardinality(JnJoinClauses) = 1
       /\ Contains(gn_all_sql, JnClauseOf(FlRows[SetMin(JnBoth(q))], q[SetMin(JnBoth(q))]))

\* C17: an insert statement has at most one join clause; it is taken from the
\* first row in row order that has both a JoinTable and a JoinCondition, its
\* kind is one of INNER, LEFT, RIGHT, FULL (LEFT when the declared kind is
\* absent or not one of them), its alias is j when none is declared, and
\* there is no join clause when no row has both fields
C17_OneJoinFromFirstRow ==
  (FlDone /\ ~FlIsView) => \E q \in FlReadings("JoinTable") : JnJoinIs(q)

\* the same for the sheets in which no two headers read the same once stripped
C17_HoldsWhenHeadersDiffer ==
  (FlDone /\ ~FlIsView /\ ~HasRepeatedLabel(gn_mapping)) =>
    \E q \in FlReadings("JoinTable") : JnJoinIs(q)

\* two rows with both fields that ask for different clauses: the first has
\* no usable kind and no alias
C17_FirstOfTwo ==
  /\ FlDone /\ ~FlIsView /\ ~HasRepeatedLabel(gn_mapping)
  /\ JnQualifying = {1, 2}
  /\ Get(FlRows[1], "JoinTable") # Get(FlRows[2], "JoinTable")
  /\ JnDeclaredKind(FlRows[1]) = <<"C", "R", "O", "S", "S">> /\ Get(FlRows[1], "JoinAlias") = <<>>
  /\ Contains(gn_all_sql, <<"\n", " ", " ", "L", "E", "F", "T", " ", "J", "O", "I", "N", " ",
      "J", "2", " ", "j", " ", "O", "N", " ", "t", ".", "x", " ", "=", " ", "j", ".", "x", ";">>)

\* a unit read from a sheet with the headers JoinTable and JoinTable followed
\* by a blank, both cells of its row empty: the insert has a join clause
C17_JoinWithoutTable ==
  /\ FlDone /\ ~FlIsView /\ Len(FlRows) = 1
  /\ FlCells(1, "JoinTable") = {<<>>}
  /\ JnJoinClauses # {}



\* what the claim speaks of: a unit that declares a join on some row, and a
\* join finding of the validation for the unit
JnDeclared ==
  \E x \in DOMAIN FlRows :
     Get(FlRows[x], "JoinTable") # <<>> \/ Get(FlRows[x], "JoinCondition") # <<>>
JnFinding ==
  \/ \E w \in DOMAIN gn_issues.warnings :
        gn_issues.warnings[w] = JoinConditionMissingMessage(gn_grouped[1].logical)
  \/ \E e \in DOMAIN gn_issues.errors :
        gn_issues.errors[e] = JoinTableMissingMessage(gn_grouped[1].logical)
JnSplit ==
  /\ JnQualifying = {}
  /\ \E x \in DOMAIN FlRows : Get(FlRows[x], "JoinTable") # <<>>
  /\ \E x \in DOMAIN FlRows : Get(FlRows[x], "JoinCondition") # <<>>

\* C27: for a unit that is no view and in which some row has a JoinTable or a
\* JoinCondition, the insert statement has a join clause or the validation
\* reports a join finding for the unit
C27_DeclaredJoinNeverDroppedSilently ==
  (FlDone /\ ~FlIsView /\ JnDeclared) => (JnJoinClauses # {} \/ JnFinding)

\* a declared join is dropped without a finding exactly when the JoinTable
\* and the JoinCondition are declared, and on different rows only
C27_DroppedSilentlyWhenSplit ==
  (FlDone /\ ~FlIsView /\ JnDeclared) =>
    ((JnJoinClauses = {} /\ ~JnFinding) <=> JnSplit)

\* what the claim speaks of: a name wrapped in grave accents, and the
\* statements that carry the unit's name and the join table's name so wrapped
JnQuoted(name) == <<Backtick>> \o name \o <<Backtick>>
JnUnit == gn_grouped[1].logical
JnViewNamed(name) == Contains(gn_all_sql, <<"C", "R", "E", "A", "T", "E", " ", "V", "I", "E",
    "W", " ">> \o name \o <<" ", "A", "S">>)
JnTableNamed(name) == Contains(gn_all_sql, <<"C", "R", "E", "A", "T", "E", " ", "T", "A", "B",
    "L", "E", " ", "I", "F", " ", "N", "O", "T", " ", "E", "X", "I", "S", "T", "S",
        " ">> \o name \o <<" ", "(">>)
JnInsertNamed(name) == Contains(gn_all_sql, <<"I", "N", "S", "E", "R", "T", " ", "I", "N",
    "T", "O", " ">> \o name \o <<" ", "(">>)
JnJoinNamed(name) == Contains(gn_all_sql, <<" ", "J", "O", "I", "N", " ">> \o name \o <<" ">>)

\* C22: the view of a view unit, and the table definition and the insert of
\* any other unit, name the unit wrapped in grave accents; the join clause of
\* an insert names the join table so wrapped
C22_TableNamesQuoted ==
  FlDone =>
    IF FlIsView THEN JnViewNamed(JnQuoted(JnUnit))
    ELSE /\ JnTableNamed(JnQuoted(JnUnit))
         /\ JnInsertNamed(JnQuoted(JnUnit))
         /\ JnQualifying # {} =>
              JnJoinNamed(JnQuoted(Get(FlRows[SetMin(JnQualifying)], "JoinTable")))

\* what the builders emit instead: the names as they are
C22_TableNamesBare ==
  FlDone =>
    IF FlIsView THEN JnViewNamed(JnUnit)
    ELSE /\ JnTableNamed(JnUnit)
         /\ JnInsertNamed(JnUnit)
         /\ JnQualifying # {} =>
              JnJoinNamed(Get(FlRows[SetMin(JnQualifying)], "JoinTable"))
----------------------------------------------------------------------------
(* SpecOrder: generate up to the grouping of the rows (lines 258-284): the
   cells are normalised, the validations run, the rows are sorted and
   grouped, or the sort raises *)

OrdStages == {<<"V", "I", "E", "W">>, <<"x", "r", "e", "f">>, <<"F", "G", "A", "C">>, <<>>}
OrdSheetRows ==
  {[TargetTable |-> <<"A">>, PipelineStage |-> s, IsTargetPK |-> p, TargetColumn |-> <<"a">>] :
     s \in OrdStages, p \in {<<"Y">>, <<>>}}
  \cup {[TargetTable |-> <<"A">>, PipelineStage |-> <<"V", "I", "E", "W">>, IsTargetPK |-> <<"Y">>,
         TargetColumn |-> <<"b">>]}
  \cup {[TargetTable |-> <<"B">>, PipelineStage |-> s, IsTargetPK |-> <<"Y">>,
         TargetColumn |-> <<"a">>] : s \in {<<"V", "I", "E", "W">>, <<"F", "G", "A", "C">>}}
  \cup {[TargetTable |-> <<" ">>, PipelineStage |-> <<"V", "I", "E", "W">>, IsTargetPK |-> <<"Y">>,
         TargetColumn |-> <<"a">>]}

\* the sheets with the four columns; those without the column IsTargetPK, and
\* those with the header PipelineStage twice, on which the sort raises
OrdSheets(max_rows) ==
  UNION {PlainSheets(GnAllColumns, [1..n -> OrdSheetRows]) : n \in 0..max_rows}
  \cup UNION {PlainSheets(GnAllColumns \ {"IsTargetPK"}, [1..n -> OrdSheetRows]) :
              n \in 0..1}
  \cup UNION {RepeatingSheets(GnAllColumns, "PipelineStage", [1..n -> GnRepeatingRows]) :
              n \in 0..1}

OrdInit ==
  /\ gn_mapping \in OrdSheets(MaxOrderRows)
  /\ gn_matrix = NoMatrix
  /\ gn_issues = NoIssues
  /\ gn_grouped = <<>>
  /\ gn_views_sql = <<>>
  /\ gn_ddls_sql = <<>>
  /\ gn_xref_inserts = <<>>
  /\ gn_fgac_inserts = <<>>
  /\ gn_all_sql = <<>>
  /\ gn_raised = FALSE
  /\ gn_u = 0
  /\ gn_pc = "load"
  /\ gn_pandas \in Builds(gn_mapping)
  /\ SanIdle /\ RwIdle /\ ExIdle /\ AlIdle /\ DdIdle /\ MxIdle /\ FrIdle /\ TwIdle

OrdNext == GnLoad \/ GnValidate \/ GnSortRaises \/ GnSortAndGroup

SpecOrder == OrdInit /\ [][OrdNext]_vars

\* what the claim speaks of: the order of two rows by stage rank, then
\* TargetTable, then primary-key flag, then TargetColumn
OrdGrouped == gn_pc = "units"
OrdStage(r) ==
  LET s == str_upper(Get(r, "PipelineStage"))
  IN  IF s = T_VIEW THEN 0 ELSE IF s = T_XREF THEN 1 ELSE IF s = T_FGAC THEN 2 ELSE 3
OrdPk(r) == IF str_upper(Get(r, "IsTargetPK")) = <<"Y">> THEN 0 ELSE 1
OrdKey(r) == <<OrdStage(r), Get(r, "TargetTable"), OrdPk(r), Get(r, "TargetColumn")>>
OrdLess(k, a, b) == IF k \in {1, 3} THEN a < b ELSE a # b /\ TextLeq(a, b)
OrdInOrder(r1, r2) ==
  \/ OrdKey(r1) = OrdKey(r2)
  \/ \E k \in 1..4 : /\ \A j \in 1..(k - 1) : OrdKey(r1)[j] = OrdKey(r2)[j]
                     /\ OrdLess(k, OrdKey(r1)[k], OrdKey(r2)[k])
OrdTimes(rows, r) == Cardinality({x \in DOMAIN rows : rows[x] = r})

\* C19: the rows of every unit, and the units by their first row, stand in
\* the order of stage rank (VIEW, XREF, FGAC, anything else last), then
\* TargetTable, then primary-key rows first, then TargetColumn; a unit holds
\* the rows of its TargetTable, and a row with an empty TargetTable is in no
\* unit
C19_GroupedInSortOrder ==
  OrdGrouped =>
    /\ \A x \in DOMAIN gn_grouped :
         \A k \in 1..(Len(gn_grouped[x].rows) - 1) :
            OrdInOrder(gn_grouped[x].rows[k], gn_grouped[x].rows[k + 1])
    /\ \A x \in 1..(Len(gn_grouped) - 1) :
         /\ OrdInOrder(gn_grouped[x].rows[1], gn_grouped[x + 1].rows[1])
         /\ \A y \in (x + 1)..Len(gn_grouped) : gn_grouped[x].logical # gn_grouped[y].logical
    /\ {gn_grouped[x].logical : x \in DOMAIN gn_grouped} = MappingTables(gn_mapping)
    /\ \A x \in DOMAIN gn_grouped :
         \A r \in Range(GnRecords) \cup Range(gn_grouped[x].rows) :
            OrdTimes(gn_grouped[x].rows, r) =
              IF Get(r, "TargetTable") = gn_grouped[x].logical /\ Get(r, "TargetTable") # <<>>
              THEN OrdTimes(GnRecords, r) ELSE 0

\* a sheet in another order than the sort's: the second unit of the file
\* comes first by its stage, a row without TargetTable is dropped
C19_Witness ==
  /\ OrdGrouped
  /\ Len(GnRecords) = 3 /\ Len(gn_grouped) = 2
  /\ Get(GnRecords[1], "TargetTable") = <<"A">>
  /\ Get(GnRecords[2], "TargetTable") = <<>>
  /\ gn_grouped[1].logical = <<"B">> /\ gn_grouped[2].logical = <<"A">>


\* what the claim speaks of: the Key column and the unit's column of the
\* matrix, the rows that give the unit an option, and the options resolved
MxKeyAt ==
  {x \in DOMAIN mx_matrix.headers : str_lower(str_strip(mx_matrix.headers[x])) = <<"k", "e", "y">>}
MxUnitAt ==
  {x \in DOMAIN mx_matrix.headers : x \notin MxKeyAt /\ str_strip(mx_matrix.headers[x]) = mx_unit}
MxHasUnitColumn == mx_matrix.present /\ mx_matrix.rows # <<>> /\ MxKeyAt # {} /\ MxUnitAt # {}
MxKeyOf(n) == str_strip(mx_matrix.rows[n][SetMin(MxKeyAt)])
MxCellOf(n) == str_strip(mx_matrix.rows[n][SetMax(MxUnitAt)])
MxOptionRows ==
  {n \in DOMAIN mx_matrix.rows :
     /\ MxKeyOf(n) # <<>>
     /\ str_lower(MxCellOf(n)) \notin {<<>>, <<"n", "a">>, <<"n", "/", "a">>, <<"n", "o", "n",
         "e">>}}
MxOptions == {mx_props.props[x] : x \in DOMAIN mx_props.props}
MxBlankHeader == \E x \in DOMAIN mx_matrix.headers : str_strip(mx_matrix.headers[x]) = <<>>
MxRepeatedHeader ==
  \E x, y \in DOMAIN mx_matrix.headers :
     x # y /\ str_strip(mx_matrix.headers[x]) = str_strip(mx_matrix.headers[y])

\* C20: the options resolved for a unit with a column in the matrix have
\* exactly the keys of the rows whose cell in that column is not a sentinel,
\* each with the value of the last such row of the key, in which every
\* ${table_name} is replaced by the unit's emitted name
C20_ResolvedOptions ==
  (mx_resolved /\ MxHasUnitColumn) =>
    /\ ~mx_props.raised
    /\ {o[1] : o \in MxOptions} = {MxKeyOf(n) : n \in MxOptionRows}
    /\ Cardinality(MxOptions) = Len(mx_props.props)
    /\ \A o \in MxOptions :
         \A n \in MxOptionRows :
            (MxKeyOf(n) = o[1] /\ \A k \in MxOptionRows : MxKeyOf(k) = o[1] => k <= n)
              => o[2] = str_replace(MxCellOf(n), T_MACRO, mx_unit)

\* the same, the calls that end in an exception left aside
C20_ResolvedOptions_WhenReturned ==
  (mx_resolved /\ mx_props.raised) \/ C20_ResolvedOptions

\* a key given twice, the last value with the macro expanded
C20_Witness ==
  /\ mx_resolved /\ MxHasUnitColumn /\ ~MxBlankHeader /\ ~MxRepeatedHeader
  /\ Cardinality(MxOptionRows) = 2 /\ Len(mx_props.props) = 1
  /\ mx_props.props[1][2] = <<"a">> \o mx_unit


----------------------------------------------------------------------------
(* SpecFrame: the unit loop of generate (lines 288-323) over two units, in
   two calls of generate one after the other, with the allocator's locals
   reserved, cursor and auto_idx as variables *)

\* rows of a view unit: CSV rows without selector, with a numeric selector,
\* a JSON row, a CSV row with an override
FrViewRows ==
  {[PipelineStage |-> <<"V", "I", "E", "W">>, MessageFormat |-> <<"C", "S",
      "V">>, FieldSelector |-> fc[1],
    TargetColumn |-> fc[2], ExprOverride |-> <<>>] :
     fc \in {<<<<>>, <<"a">>>>, <<<<>>, <<"b">>>>, <<<<"0">>, <<"a">>>>, <<<<"1">>, <<"b">>>>}}
  \cup {[PipelineStage |-> <<"V", "I", "E", "W">>, MessageFormat |-> <<"J", "S", "O",
      "N">>, FieldSelector |-> <<>>,
         TargetColumn |-> <<"a">>, ExprOverride |-> <<>>],
        [PipelineStage |-> <<"V", "I", "E", "W">>, MessageFormat |-> <<"C", "S",
            "V">>, FieldSelector |-> <<"0">>,
         TargetColumn |-> <<"a">>, ExprOverride |-> <<"f", "(", "x", ")">>]}

\* the one row of a unit that is no view
FrOtherRow ==
  [PipelineStage |-> <<"X", "R", "E", "F">>, MessageFormat |-> <<"C", "S",
      "V">>, FieldSelector |-> <<"0">>,
   TargetColumn |-> <<"a">>, ExprOverride |-> <<>>]

FrUnitsOf(max_rows) ==
  {<<FrOtherRow>>} \cup UNION {[1..n -> FrViewRows] : n \in 1..max_rows}

FrInit ==
  /\ fr_units \in [1..2 -> FrUnitsOf(MaxFrameRows)]
  /\ fr_run = 1
  /\ fr_u = 1
  /\ fr_reserved = {} /\ fr_cursor = 0 /\ fr_auto_idx = <<>>
  /\ fr_indices = <<<<>>, <<>>>>
  /\ fr_pc = "units"
  /\ SanIdle /\ RwIdle /\ ExIdle /\ AlIdle /\ DdIdle /\ MxIdle /\ GnIdle /\ TwIdle

FrAtUnit == fr_pc = "units" /\ fr_u <= Len(fr_units)
FrRows == fr_units[fr_u]

\* a view unit: auto_idx and reserved are made anew, the first loop
\* reserves, cursor is set to zero, the second loop assigns, and the
\* expressions are built with auto_idx
FrViewUnit ==
  /\ FrAtUnit
  /\ UnitStage(FrRows) = T_VIEW
  /\ LET reserved == ReserveFrom(FreshReserved(fr_reserved), FrRows)
         after == AllocFrom(FrRows, FreshCursor(fr_cursor), reserved,
                            FreshAutoIdx(fr_auto_idx))
     IN  /\ fr_reserved' = after.reserved
         /\ fr_cursor' = after.cursor
         /\ fr_auto_idx' = after.auto_idx
         /\ fr_indices' = [fr_indices EXCEPT ![fr_run] = Append(@, after.auto_idx)]
  /\ fr_u' = fr_u + 1
  /\ UNCHANGED <<fr_units, fr_run, fr_pc, notFr>>

\* a unit that is no view: auto_idx is made anew, reserved and cursor are
\* neither read nor written
FrOtherUnit ==
  /\ FrAtUnit
  /\ UnitStage(FrRows) # T_VIEW
  /\ fr_auto_idx' = FreshAutoIdx(fr_auto_idx)
  /\ fr_indices' = [fr_indices EXCEPT ![fr_run] = Append(@, fr_auto_idx')]
  /\ fr_u' = fr_u + 1
  /\ UNCHANGED <<fr_units, fr_run, fr_reserved, fr_cursor, fr_pc, notFr>>

\* the first call returns and generate is called again on the same rows: the
\* locals of the new call hold nothing until they are assigned, so whatever
\* the variables still hold is what a carried-over value would be
FrSecondCall ==
  /\ fr_pc = "units" /\ fr_u > Len(fr_units) /\ fr_run = 1
  /\ fr_run' = 2
  /\ fr_u' = 1
  /\ UNCHANGED <<fr_units, fr_reserved, fr_cursor, fr_auto_idx, fr_indices, fr_pc, notFr>>

\* the second call returns
FrReturn ==
  /\ fr_pc = "units" /\ fr_u > Len(fr_units) /\ fr_run = 2
  /\ fr_pc' = "done"
  /\ UNCHANGED <<fr_units, fr_run, fr_u, fr_reserved, fr_cursor, fr_auto_idx, fr_indices, notFr>>

FrNext == FrViewUnit \/ FrOtherUnit \/ FrSecondCall \/ FrReturn

SpecFrame == FrInit /\ [][FrNext]_vars

\* what the claim speaks of: the indices a unit gets when its rows are the
\* only rows there are, allocated from an empty set and a cursor at zero
FrAlone(rows) ==
  IF str_upper(Get(rows[1], "PipelineStage")) = T_VIEW THEN AllocLoop(rows).auto_idx ELSE <<>>

\* C23: in either call and whatever the other unit holds, the indices
\* assigned in a unit are those its rows get alone
C23_IndicesOfUnitRowsOnly ==
  \A run \in DOMAIN fr_indices :
     \A x \in DOMAIN fr_indices[run] : fr_indices[run][x] = FrAlone(fr_units[x])

\* both calls are through; the first unit reserved index 0 and moved the
\* cursor, the second unit still numbers its columns from 0
C23_Witness ==
  /\ fr_pc = "done"
  /\ Len(fr_indices[1]) = 2 /\ Len(fr_indices[2]) = 2
  /\ 0 \in ReservedIndexes(fr_units[1])
  /\ DOMAIN fr_indices[1][1] # {}
  /\ DOMAIN fr_indices[2][2] # {}
  /\ \E c \in DOMAIN fr_indices[2][2] : fr_indices[2][2][c] = 0


----------------------------------------------------------------------------
(* SpecTwice: generate called twice, one call after the other, on the same
   workbook (mapping sheet and configuration matrix) *)

\* rows of a view unit, of a cross-reference unit, of a unit of another
\* stage, and a row without TargetTable; an empty cell is read as NaN
TwSheetRows ==
  {[TargetTable |-> <<"A">>, TargetColumn |-> <<"a">>, PipelineStage |-> <<"V", "I", "E", "W">>,
    IsTargetPK |-> <<"Y">>],
   [TargetTable |-> <<"A">>, TargetColumn |-> <<"b", " ">>, PipelineStage |-> <<"V", "I", "E",
       "W">>,
    IsTargetPK |-> NaN],
   [TargetTable |-> <<"X", "R", "E", "F", "_",
       "B">>, TargetColumn |-> <<"a">>, PipelineStage |-> <<"X", "r", "e", "f">>,
    IsTargetPK |-> <<"Y">>],
   [TargetTable |-> <<"X", "R", "E", "F", "_",
       "B">>, TargetColumn |-> NaN, PipelineStage |-> <<"X", "r", "e", "f">>,
    IsTargetPK |-> NaN],
   [TargetTable |-> <<"C">>, TargetColumn |-> <<"a">>, PipelineStage |-> <<"F", "G", "A", "C">>,
    IsTargetPK |-> NaN],
   [TargetTable |-> <<" ">>, TargetColumn |-> <<"a">>, PipelineStage |-> <<"V", "I", "E", "W">>,
    IsTargetPK |-> NaN]}

\* the books of GnMatrices, and one whose row has a blank key and an empty
\* cell: it is loaded, and its validation raises
TwMatrices ==
  GnMatrices
  \cup {[present |-> TRUE, headers |-> <<<<"K", "e", "y">>, <<"X", "R", "E", "F", "_", "B">>>>,
         rows |-> <<<<T_CHANGELOG_MODE, <<"u", "p", "s", "e", "r", "t">>>>, <<<<" ">>, NaN>>>>]}

\* the sheets with the four columns, and those with the header IsTargetPK a
\* second time, a blank after it, over empty cells
TwSheets(max_rows) ==
  UNION {PlainSheets(GnAllColumns, [1..n -> TwSheetRows]) : n \in 0..max_rows}
  \cup UNION {RepeatingSheets(GnAllColumns, "IsTargetPK",
                               [1..n -> {[c \in GnAllColumns \cup {"Again"} |->
                                            IF c = "Again" THEN NaN ELSE r[c]] :
                                           r \in TwSheetRows}]) :
              n \in 0..1}

TwInit ==
  /\ gn_mapping \in TwSheets(MaxTwiceRows)
  /\ gn_matrix \in TwMatrices
  /\ gn_issues = NoIssues
  /\ gn_grouped = <<>>
  /\ gn_views_sql = <<>>
  /\ gn_ddls_sql = <<>>
  /\ gn_xref_inserts = <<>>
  /\ gn_fgac_inserts = <<>>
  /\ gn_all_sql = <<>>
  /\ gn_raised = FALSE
  /\ gn_u = 0
  /\ gn_pc = "load"
  /\ gn_pandas \in Builds(gn_mapping)
  /\ tw_book = [mapping |-> gn_mapping, matrix |-> gn_matrix]
  /\ tw_run = 1 /\ tw_first = NoReturn
  /\ SanIdle /\ RwIdle /\ ExIdle /\ AlIdle /\ DdIdle /\ MxIdle /\ FrIdle

\* the first call returns (issues, all_sql) and generate is called again, by
\* the same build or in another run of the interpreter: the workbook is read
\* anew, every local of the new call is made anew, and the set mapping_tables
\* of the new call is met in an order of its own
TwSecondCall ==
  /\ gn_pc = "done" /\ tw_run = 1
  /\ tw_first' = [issues |-> gn_issues, all_sql |-> gn_all_sql, raised |-> gn_raised]
  /\ tw_run' = 2
  /\ gn_mapping' = tw_book.mapping
  /\ gn_matrix' = tw_book.matrix
  /\ gn_issues' = NoIssues
  /\ gn_grouped' = <<>>
  /\ gn_views_sql' = <<>>
  /\ gn_ddls_sql' = <<>>
  /\ gn_xref_inserts' = <<>>
  /\ gn_fgac_inserts' = <<>>
  /\ gn_all_sql' = <<>>
  /\ gn_raised' = FALSE
  /\ gn_u' = 0
  /\ gn_pc' = "load"
  /\ UNCHANGED <<gn_pandas, tw_book, sanVars, rwVars, exVars, alVars, ddVars, mxVars, frVars>>

TwNext == GnNext \/ TwSecondCall

SpecTwice == TwInit /\ [][TwNext]_vars

\* both calls have returned
TwBothDone == gn_pc = "done" /\ tw_run = 2

\* C24: the second call returns the SQL text and the error and warning lists
\* the first call returned
C24_SecondCallReturnsTheSame ==
  TwBothDone =>
    /\ gn_all_sql = tw_first.all_sql
    /\ gn_issues.errors = tw_first.issues.errors
    /\ gn_issues.warnings = tw_first.issues.warnings
    /\ gn_raised = tw_first.raised

\* two units of different kinds, both without a column in the matrix: each
\* call met the set of their names in one of its two orders, and both report
\* the two units in the order of their names
C24_Witness ==
  /\ TwBothDone /\ ~gn_raised
  /\ Len(gn_grouped) = 2
  /\ gn_views_sql # <<>> /\ gn_fgac_inserts # <<>>
  /\ MappingTables(gn_mapping) = {<<"A">>, <<"C">>}
  /\ gn_issues.errors = tw_first.issues.errors
  /\ \E x, y \in DOMAIN gn_issues.errors :
        /\ x < y
        /\ gn_issues.errors[x] = MissingPropsMessage(<<"A">>)
        /\ gn_issues.errors[y] = MissingPropsMessage(<<"C">>)
  /\ Contains(gn_all_sql, <<"C", "R", "E", "A", "T", "E", " ", "V", "I", "E", "W", " ", "A",
      " ", "A", "S">>)
  /\ gn_all_sql = tw_first.all_sql


----------------------------------------------------------------------------
(* SpecStage: generate on a mapping of one unit, V, whose rows carry a
   PipelineStage each, a MessageFormat, a FieldSelector and an ExprOverride *)

SgColumns == GnAllColumns \cup {"MessageFormat", "FieldSelector", "ExprOverride"}

\* CSV rows without selector, with a selector that is no number, with a
\* numeric one, each with and without an override; rows of a format that is
\* neither JSON nor CSV
SgSheetRows ==
  {[TargetTable |-> <<"V">>, TargetColumn |-> c, PipelineStage |-> s, IsTargetPK |-> <<>>,
    MessageFormat |-> <<"C", "S", "V">>, FieldSelector |-> fs, ExprOverride |-> ov] :
     c \in {<<"a">>, <<"b">>}, s \in {<<"V", "I", "E", "W">>, <<"x", "r", "e",
         "f">>}, fs \in {<<>>, <<"k">>, <<"0">>},
     ov \in {<<>>, <<"f", "(", "x", ")">>}}
  \cup {[TargetTable |-> <<"V">>, TargetColumn |-> c, PipelineStage |-> s, IsTargetPK |-> <<>>,
         MessageFormat |-> <<"X", "M", "L">>, FieldSelector |-> <<>>, ExprOverride |-> <<>>] :
          c \in {<<"a">>, <<"b">>}, s \in {<<"V", "I", "E", "W">>, <<"x", "r", "e", "f">>}}

SgSheets(max_rows) ==
  UNION {PlainSheets(SgColumns, [1..n -> SgSheetRows]) : n \in 1..max_rows}

SgInit ==
  /\ gn_mapping \in SgSheets(MaxStageRows)
  /\ gn_matrix = NoMatrix
  /\ gn_issues = NoIssues
  /\ gn_grouped = <<>>
  /\ gn_views_sql = <<>>
  /\ gn_ddls_sql = <<>>
  /\ gn_xref_inserts = <<>>
  /\ gn_fgac_inserts = <<>>
  /\ gn_all_sql = <<>>
  /\ gn_raised = FALSE
  /\ gn_u = 0
  /\ gn_pc = "load"
  /\ gn_pandas \in Builds(gn_mapping)
  /\ SanIdle /\ RwIdle /\ ExIdle /\ AlIdle /\ DdIdle /\ MxIdle /\ FrIdle /\ TwIdle

SgNext == GnLoad \/ GnValidate \/ GnSortAndGroup \/ GnViewUnit \/ GnXrefUnit \/ GnSections

SpecStage == SgInit /\ [][SgNext]_vars

\* what the claims speak of: the unit is generated as a view; the rows of the
\* sheet the VIEW rules of the validation have a finding for; the findings
\* only those rules give
SgGeneratedAsView == Contains(gn_all_sql, <<"C", "R", "E", "A", "T", "E", " ", "V", "I", "E",
    "W", " ", "V", " ", "A", "S">>)
SgBadSelector(r) ==
  /\ str_upper(Get(r, "MessageFormat")) = T_CSV
  /\ Get(r, "ExprOverride") = <<>> /\ Get(r, "SourceTransformExpr") = <<>>
  /\ Get(r, "FieldSelector") # <<>>
  /\ \E x \in DOMAIN Get(r, "FieldSelector") : ~IsDigitCh(Get(r, "FieldSelector")[x])
SgBadFormat(r) == str_upper(Get(r, "MessageFormat")) \notin {<<>>, T_JSON, T_CSV}
SgTelling ==
  \E x \in DOMAIN GnRecords :
     SgBadSelector(GnRecords[x]) \/ SgBadFormat(GnRecords[x])
SgSelectorErrors ==
  {x \in DOMAIN gn_issues.errors :
     Contains(gn_issues.errors[x], <<"C", "S", "V", " ", "F", "i", "e", "l", "d", "S", "e",
         "l", "e", "c", "t", "o", "r", " ", "m", "u", "s", "t", " ", "b", "e", " ", "n", "u",
             "m", "e", "r", "i", "c">>)}
SgFormatErrors ==
  {x \in DOMAIN gn_issues.errors : Contains(gn_issues.errors[x], <<"i", "n", "v", "a", "l",
      "i", "d", " ", "M", "e", "s", "s", "a", "g", "e", "F", "o", "r", "m", "a", "t">>)}
SgCheckedAsView == SgSelectorErrors # {} \/ SgFormatErrors # {}
SgFirstSheetRowIsView == str_upper(Get(GnRecords[1], "PipelineStage")) = T_VIEW

\* C26: a unit is checked with the VIEW rules of the validation exactly when
\* it is generated as a view, seen on the units that hold a row those rules
\* have a finding for
C26_SameStageInBoth ==
  (FlDone /\ SgTelling) => (SgCheckedAsView <=> SgGeneratedAsView)

\* the validation takes the stage of the unit's first row in the sheet
C26_CheckedByFirstSheetRow ==
  (FlDone /\ SgTelling) => (SgCheckedAsView <=> SgFirstSheetRowIsView)

\* the generation takes the stage of the unit's first row once sorted: a view
\* as soon as one row of the unit says VIEW
C26_GeneratedByFirstSortedRow ==
  FlDone => (SgGeneratedAsView <=> FlIsView)


\* what the claim speaks of: the rows of the unit, sorted, that are CSV rows
\* with a selector that is no number and neither override nor transform; the
\* unit with the selector of row x blanked; the select line of row x
SgBadRows == {x \in DOMAIN FlRows : SgBadSelector(FlRows[x])}
SgBlanked(x) == [y \in DOMAIN FlRows |->
                   IF y = x THEN [FlRows[y] EXCEPT !.FieldSelector = <<>>] ELSE FlRows[y]]
SgSelectLine(x, exprs) ==
  <<" ", " ">> \o exprs[x] \o <<" ", "A", "S", " ">> \o Get(FlRows[x], "TargetColumn")
SgReported(x) ==
  \E e \in DOMAIN gn_issues.errors :
     /\ Contains(gn_issues.errors[e], <<"[", "V", "]", " ", "r", "o", "w", "#">>)
     /\ Contains(gn_issues.errors[e],
                 <<"C", "S", "V", " ", "F", "i", "e", "l", "d", "S", "e", "l", "e", "c", "t",
                     "o", "r", " ", "m", "u", "s", "t", " ", "b", "e", " ", "n", "u", "m",
                         "e", "r", "i", "c", " ", "w", "h", "e", "n", " ", "p", "r", "o", "v",
                             "i", "d", "e", "d", ".", " ", "G", "o", "t", ":", " ">>
                   \o Get(FlRows[x], "FieldSelector"))
SgEmittedAsBlank(x) ==
  /\ UnitExprs(FlRows, TRUE)[x] = UnitExprs(SgBlanked(x), TRUE)[x]
  /\ Contains(gn_all_sql, SgSelectLine(x, UnitExprs(SgBlanked(x), TRUE)))
  /\ Contains(UnitExprs(SgBlanked(x), TRUE)[x], <<"S", "P", "L", "I", "T", "_", "I", "N", "D",
      "E", "X", "(", "C", "A", "S", "T", "(", "v", "a", "l", " ", "A", "S", " ", "S", "T",
          "R", "I", "N", "G", ")", ",", " ", "'", ",", "'", ",", " ">>)

\* C30: a CSV row of a view, without override or transform, whose
\* FieldSelector is not empty and not a number is reported as an error by the
\* validation, and the view still has its select line, with the index the
\* allocator gives the row when it has no selector
C30_BadSelectorReportedAndEmitted ==
  (FlDone /\ FlIsView) =>
    \A x \in SgBadRows : SgReported(x) /\ SgEmittedAsBlank(x)

\* the generation half alone
C30_BadSelectorEmitted ==
  (FlDone /\ FlIsView) => \A x \in SgBadRows : SgEmittedAsBlank(x)

\* both halves, for the units whose first row in the sheet is a VIEW row
C30_ReportedWhenCheckedAsView ==
  (FlDone /\ FlIsView /\ SgFirstSheetRowIsView) =>
    \A x \in SgBadRows : SgReported(x) /\ SgEmittedAsBlank(x)

\* a view with a numeric selector 0 and a selector k: the row with k is
\* reported and is emitted with index 1
C30_Witness ==
  /\ FlDone /\ FlIsView /\ SgFirstSheetRowIsView
  /\ Len(FlRows) = 2 /\ SgBadRows = {2}
  /\ Get(FlRows[1], "FieldSelector") = <<"0">> /\ Get(FlRows[1], "ExprOverride") = <<>>
  /\ SgReported(2)
  /\ Contains(gn_all_sql, <<"S", "P", "L", "I", "T", "_", "I", "N", "D", "E", "X", "(", "C",
      "A", "S", "T", "(", "v", "a", "l", " ", "A", "S", " ", "S", "T", "R", "I", "N", "G",
          ")", ",", " ", "'", ",", "'", ",", " ", "1", ")">>)

============================================================================
